---- MODULE Spec2Model ----
(***************************************************************************)
(* Model of the OpenStreetMap extension's path planner and movers          *)
(* (src/lib/libraries/extensions/openstreetmap/index.js).                  *)
(*                                                                         *)
(* Numbers.  JavaScript numbers are modelled as integers in fixed point;   *)
(* the two non-finite values the code produces are kept apart:             *)
(*   NaN       the result of Number("abc") and of arithmetic on it; every  *)
(*             comparison with it is false;                                *)
(*   Infinity  the initial gScore/fScore, larger than every finite value.  *)
(* Math.sqrt is the integer square root (rounded down).                    *)
(***************************************************************************)
EXTENDS Integers, Sequences, FiniteSets, TLC

VARIABLES
    \* AStarPathfinder
    nodes,      \* this.nodes: Map id -> {id, x, y}
    links,      \* this.links: Map id -> array of {to, distance}
    \* one findPath call (its locals, and where it stands)
    pc,         \* "idle" | "search" (inside the while loop) | "done" (returned)
    startId, goalId,
    openSet,    \* Set in insertion order, as a duplicate-free sequence
    cameFrom, gScore, fScore,
    current,    \* the node chosen by the last iteration (Null: none)
    iters,      \* iterations of the while loop run so far in this call
    result,     \* the returned array
    lastOp, lastList, \* the last graph call and its argument
    \* the path-query blocks and the Scratch lists and variable they use
    display,    \* the lists 表示NodeID, 表示NodeX, 表示NodeY, 表示LinkFrom, 表示LinkTo
    query,      \* the last operation on them: a block invocation, or an edit
    queryRet,   \* what the last block invocation returned
    pathList,   \* the list Path
    shortestList, \* the list 最短経路
    resultVar,  \* the variable 経路探索結果
    \* the map and the projection functions
    tileMap,    \* centerLatitude and centerLongitude, in millionths of a degree
    converted,  \* the last convertLatLngToScratch call: arguments and result
    located,    \* the last call of a getScratchCoordinate... function
    \* TileCache (tile-cache.js)
    cache,      \* this.cache: Map key -> image, as the entries in insertion order
    maxSize,    \* this.maxSize
    pending,    \* the getImage calls that wait for a server, and for which
    recent,     \* the cached keys in the order of their last use
    cacheCall,  \* the last call that ended and what it returned
    \* PreciseMovementController and the sprite it moves
    now,        \* Date.now(), in milliseconds
    sprite,     \* the sprite's position [x, y]
    mover,      \* the controller's fields
    ret,        \* what the last updateMovement call returned
    call,       \* the last controller call and its arguments
    movedAt,    \* when a call last changed the sprite's position (-1: never)
    \* tallies over the applied steps since the last startMovement
    drift,      \* sum of intended distance minus distance moved
    worst,      \* largest |intended - moved| of a single step
    trues,      \* how many updateMovement calls returned true
    \* a caller that moves the sprite to one target
    leg,        \* its target, speed, timeScale and scale (NoLeg: not started)
    \* PathMovementController; its preciseMover is mover, its sprite is sprite
    pathCtl,    \* isMoving, pathNodes, currentTargetIndex
    pathArg,    \* the array the caller gave to startPathMovement, as it is now
    sharesArg,  \* this.pathNodes is that very array, not a copy
    pathRet,    \* what the last path-controller call returned
    pathCall,   \* the caller's last operation on the path controller
    restarted,  \* the last caller called startMovement on a Moving controller
    \* the move blocks of the extension
    preciseMovements, \* this.preciseMovements: Map sprite id -> controller
    stage,      \* the position of each sprite the blocks move
    blockCall,  \* the last block invocation and its arguments
    yielded,    \* it ended with util.yield()
    preciseMovement \* this.preciseMovement: <<>> while undefined, else <<controller>>

searchVars == <<pc, startId, goalId, openSet, cameFrom, gScore, fScore, current,
                iters, result>>

queryVars == <<display, query, queryRet, pathList, shortestList, resultVar>>

\* What the extension keeps beside the path planner and the movers.
projVars == <<tileMap, converted, located>>

cacheVars == <<cache, maxSize, pending, recent, cacheCall>>

hostVars == <<queryVars, projVars, cacheVars>>

pathVars == <<nodes, links, searchVars, lastOp, lastList, hostVars>>

moveVars == <<now, sprite, mover, ret, call, movedAt>>

tallyVars == <<drift, worst, trues>>

\* Everything but the path planner.
\* The state of the controller's callers.
blockVars == <<preciseMovements, stage, blockCall, yielded, preciseMovement>>

callerVars ==
    <<leg, pathCtl, pathArg, sharesArg, pathRet, pathCall, restarted, blockVars>>

actorVars == <<moveVars, tallyVars, callerVars>>

\* Everything but the path planner and the path-query blocks.
nonQueryVars == <<projVars, cacheVars, actorVars>>

vars == <<pathVars, actorVars>>

----------------------------------------------------------------------------
\* Bounds of the model.
MaxNodeList == 3    \* longest nodeList given to setNodes
MaxLinkList == 3    \* longest linkList given to setLinks
MaxIters == 8       \* iterations of the search loop that are followed
MaxTime == 100      \* the clock is followed up to this many milliseconds
MaxStepTime == 102  \* the same, for the runs in which every tick allows a step
MaxLegTime == 140   \* the same, for the runs toward one target
MaxCallersTime == 34 \* the same, for the runs of all callers together
MaxPathTime == 136  \* the same, for the runs along a path
MaxSpritesTime == 102 \* the same, for the runs of the blocks of two sprites
MaxMisuseTime == 34  \* the same, for the runs with a caller that writes the index
MaxLiveTime == 306   \* the same, for the runs that are followed to their end
MaxStepBlockTime == 102 \* the same, for the runs of moveStepWithSpeedTowardCoordinate

\* JavaScript values.
NaN == -1
Infinity == 1000000
Null == 0

\* Inputs: rows of nodeList ([id, x, y]) and of linkList ([from, to, distance]).
\* Plane units are fifths, so the triangle 1:(0,0) 2:(10,0) 3:(10,10) with
\* links 10, 10 and 14.2 is the first three rows of each set; the fourth link
\* is a detour from 1 to 3, longer than the way over 2.  Id 4 is never a node;
\* a link to 2 or 3 dangles when the node list leaves that id out.
NodeRows == { <<1, 0, 0>>, <<2, 50, 0>>, <<3, 50, 50>>, <<2, NaN, 0>> }
LinkRows == { <<1, 2, 50>>, <<2, 3, 50>>, <<1, 3, 71>>, <<1, 3, 120>> }
QueryIds == 1..4

RECURSIVE SeqsUpTo(_, _)
SeqsUpTo(S, n) ==
    IF n = 0 THEN { <<>> }
    ELSE LET shorter == SeqsUpTo(S, n - 1)
         IN  shorter \cup { Append(s, r) : s \in shorter, r \in S }

\* Node lists: up to MaxNodeList different rows (two rows may share an id).
NodeLists ==
    { s \in SeqsUpTo(NodeRows, MaxNodeList) :
        \A i, j \in 1..Len(s) : i # j => s[i] # s[j] }

\* Link lists: up to MaxLinkList rows, repeated rows included.
LinkLists == SeqsUpTo(LinkRows, MaxLinkList)

Range(s) == { s[i] : i \in 1..Len(s) }

EmptyMap == [k \in {} |-> 0]

MapSet(m, k, v) == [kk \in (DOMAIN m) \cup {k} |-> IF kk = k THEN v ELSE m[kk]]

----------------------------------------------------------------------------
\* Number operations.
Add(a, b) ==
    IF a = NaN \/ b = NaN THEN NaN
    ELSE IF a = Infinity \/ b = Infinity THEN Infinity
    ELSE a + b

Lt(a, b) == a # NaN /\ b # NaN /\ a < b

RECURSIVE SqrtSearch(_, _, _)
SqrtSearch(n, lo, hi) ==
    IF lo >= hi THEN lo
    ELSE IF ((lo + hi + 1) \div 2) * ((lo + hi + 1) \div 2) <= n
    THEN SqrtSearch(n, (lo + hi + 1) \div 2, hi)
    ELSE SqrtSearch(n, lo, (lo + hi + 1) \div 2 - 1)

\* The root of a 31-bit number is at most 46340.
Sqrt(n) == SqrtSearch(n, 0, IF n > 46340 THEN 46340 ELSE n)

----------------------------------------------------------------------------
\* AStarPathfinder.setNodes: clear, then set each row in order.
RECURSIVE SetNodesFrom(_, _, _)
SetNodesFrom(nodeList, i, acc) ==
    IF i > Len(nodeList) THEN acc
    ELSE SetNodesFrom(nodeList, i + 1,
            MapSet(acc, nodeList[i][1],
                   [id |-> nodeList[i][1], x |-> nodeList[i][2], y |-> nodeList[i][3]]))

\* Faulty variant: the map is not cleared first.
SetNodesMap_NoClear(old, nodeList) == SetNodesFrom(nodeList, 1, old)

SetNodesMap(old, nodeList) == SetNodesFrom(nodeList, 1, EmptyMap)

\* AStarPathfinder.setLinks: clear, then push both directions of each row.
Push(m, k, e) ==
    MapSet(m, k, Append(IF k \in DOMAIN m THEN m[k] ELSE <<>>, e))

\* Faulty variant: the reverse direction is not pushed.
AddLink_OneWay(m, row) == Push(m, row[1], [to |-> row[2], distance |-> row[3]])

AddLink(m, row) ==
    LET m1 == Push(m, row[1], [to |-> row[2], distance |-> row[3]])
    IN  Push(m1, row[2], [to |-> row[1], distance |-> row[3]])

RECURSIVE SetLinksFrom(_, _, _)
SetLinksFrom(linkList, i, acc) ==
    IF i > Len(linkList) THEN acc
    ELSE SetLinksFrom(linkList, i + 1, AddLink(acc, linkList[i]))

SetLinksMap(old, linkList) == SetLinksFrom(linkList, 1, EmptyMap)

\* AStarPathfinder.heuristic
heuristic(nodeA, nodeB) ==
    IF nodeA.x = NaN \/ nodeA.y = NaN \/ nodeB.x = NaN \/ nodeB.y = NaN THEN NaN
    ELSE LET dx == nodeA.x - nodeB.x
             dy == nodeA.y - nodeB.y
         IN  Sqrt(dx * dx + dy * dy)

----------------------------------------------------------------------------
\* findPath, lines 351-359: the member of the open set with the least fScore,
\* the first such in insertion order; Null when no score is below Infinity.
RECURSIVE SelectFrom(_, _, _, _, _)
SelectFrom(open, f, i, cur, minFScore) ==
    IF i > Len(open) THEN cur
    ELSE IF Lt(f[open[i]], minFScore)
         THEN SelectFrom(open, f, i + 1, open[i], f[open[i]])
         ELSE SelectFrom(open, f, i + 1, cur, minFScore)

\* Faulty variant: the first member of the open set is taken, whatever its score.
SelectCurrent_First(open, f) == IF open = <<>> THEN Null ELSE open[1]

SelectCurrent(open, f) == SelectFrom(open, f, 1, Null, Infinity)

\* Set.prototype.delete and Set.prototype.add on the insertion-ordered set.
SetDelete(open, id) == SelectSeq(open, LAMBDA e : e # id)

SetAdd(open, id) == IF id \in Range(open) THEN open ELSE Append(open, id)

\* Map.prototype.get(id) compared as a number: undefined compares as NaN.
ScoreGet(m, id) == IF id \in DOMAIN m THEN m[id] ELSE NaN

\* Faulty variant: the neighbour is given the tentative score whatever it had.
RelaxOne_Always(st, cur, neighbor, goalNode) ==
    LET neighborId == neighbor.to
        tentativeGScore == Add(ScoreGet(st.g, cur), neighbor.distance)
    IN  IF neighborId \in DOMAIN st.g
        THEN [open |-> SetAdd(st.open, neighborId),
              came |-> MapSet(st.came, neighborId, cur),
              g    |-> MapSet(st.g, neighborId, tentativeGScore),
              f    |-> MapSet(st.f, neighborId,
                              Add(tentativeGScore,
                                  heuristic(nodes[neighborId], goalNode)))]
        ELSE st

\* findPath, lines 371-381: one neighbour of the loop over the links of cur.
\* st holds the locals openSet, cameFrom, gScore and fScore.
RelaxOne(st, cur, neighbor, goalNode) ==
    LET neighborId == neighbor.to
        tentativeGScore == Add(ScoreGet(st.g, cur), neighbor.distance)
    IN  IF Lt(tentativeGScore, ScoreGet(st.g, neighborId))
        THEN [open |-> SetAdd(st.open, neighborId),
              came |-> MapSet(st.came, neighborId, cur),
              g    |-> MapSet(st.g, neighborId, tentativeGScore),
              f    |-> MapSet(st.f, neighborId,
                              Add(tentativeGScore,
                                  heuristic(nodes[neighborId], goalNode)))]
        ELSE st

RECURSIVE RelaxFrom(_, _, _, _, _)
RelaxFrom(st, cur, neighbors, i, goalNode) ==
    IF i > Len(neighbors) THEN st
    ELSE RelaxFrom(RelaxOne(st, cur, neighbors[i], goalNode), cur, neighbors,
                   i + 1, goalNode)

\* AStarPathfinder.reconstructPath
RECURSIVE ReconstructFrom(_, _, _)
ReconstructFrom(came, cur, path) ==
    IF cur \in DOMAIN came
    THEN ReconstructFrom(came, came[cur], <<came[cur]>> \o path)
    ELSE path

\* Faulty variant: predecessors are pushed at the end instead of unshifted.
RECURSIVE ReconstructPushFrom(_, _, _)
ReconstructPushFrom(came, cur, path) ==
    IF cur \in DOMAIN came
    THEN ReconstructPushFrom(came, came[cur], Append(path, came[cur]))
    ELSE path

reconstructPath_Push(came, cur) == ReconstructPushFrom(came, cur, <<cur>>)

reconstructPath(came, cur) == ReconstructFrom(came, cur, <<cur>>)

----------------------------------------------------------------------------
\* PreciseMovementController.  Lengths, speeds, scales and seconds are fixed
\* point numbers in thousandths (Milli), so seconds are the clock's
\* milliseconds; products and quotients are truncated toward zero.
Milli == 1000
UpdateIntervalCenti == 3333     \* this.updateInterval = 33.33 ms, in 1/100 ms
ArrivalMilli == 10              \* the arrival threshold 0.01 m

\* Inputs of the controller calls.
Targets == { <<0, 0>>, <<200, 0>>, <<120, 160>> }
Speeds == { 1000, 4000 }
TimeScales == { 1000, 2000 }
Scales == { 1000, 500 }
TickDeltas == { 33, 34 }
StepDeltas == { 34 }
LegDeltas == { 10, 33, 34 }

\* The runs toward one target: the sprite starts at (0,0); the first two take
\* 100 ms at timeScale 1 and metersPerPixel 1, the third takes 50 ms.
NoLeg == [target |-> <<0, 0>>, speed |-> 0, timeScale |-> 0, scale |-> 0]

Legs ==
    { [target |-> <<100, 0>>, speed |-> 1000, timeScale |-> 1000, scale |-> 1000],
      [target |-> <<120, 160>>, speed |-> 2000, timeScale |-> 1000, scale |-> 1000],
      [target |-> <<120, 160>>, speed |-> 1000, timeScale |-> 2000, scale |-> 500] }

Abs(a) == IF a >= 0 THEN a ELSE -a

Trunc(a, b) == IF a >= 0 THEN a \div b ELSE -((-a) \div b)

Mul(a, b) == Trunc(a * b, Milli)

Div(a, b) == IF b > 0 THEN Trunc(a * Milli, b) ELSE -Trunc(a * Milli, -b)

NoCall ==
    [op |-> "new", at |-> 0, x |-> 0, y |-> 0, speed |-> 0, timeScale |-> 0,
     scale |-> 0]

\* constructor
NewMover ==
    [startTime |-> 0, lastUpdateTime |-> 0, lastPosition |-> [x |-> 0, y |-> 0],
     targetSpeed |-> 0, accumulatedError |-> 0, isMoving |-> FALSE]

\* Faulty variant: the carried error survives the start.
StartMovement_KeepError(m, t, startX, startY, speed) ==
    [startTime |-> t, lastUpdateTime |-> t,
     lastPosition |-> [x |-> startX, y |-> startY],
     targetSpeed |-> speed, accumulatedError |-> m.accumulatedError,
     isMoving |-> TRUE]

\* startMovement
StartMovement(m, t, startX, startY, speed) ==
    [startTime |-> t, lastUpdateTime |-> t,
     lastPosition |-> [x |-> startX, y |-> startY],
     targetSpeed |-> speed, accumulatedError |-> 0, isMoving |-> TRUE]

\* Faulty variant: the step is not clamped at the target.
calculateNextTarget_NoClamp(currentX, currentY, targetX, targetY, stepDistance) ==
    LET dx == targetX - currentX
        dy == targetY - currentY
        totalDistance == Sqrt(dx * dx + dy * dy)
    IN  IF totalDistance = 0
        THEN [x |-> targetX, y |-> targetY]
        ELSE [x |-> currentX + Mul(Div(dx, totalDistance), stepDistance),
              y |-> currentY + Mul(Div(dy, totalDistance), stepDistance)]

\* calculateNextTarget
calculateNextTarget(currentX, currentY, targetX, targetY, stepDistance) ==
    LET dx == targetX - currentX
        dy == targetY - currentY
        totalDistance == Sqrt(dx * dx + dy * dy)
    IN  IF totalDistance <= stepDistance
        THEN [x |-> targetX, y |-> targetY]
        ELSE LET directionX == Div(dx, totalDistance)
                 directionY == Div(dy, totalDistance)
             IN  [x |-> currentX + Mul(directionX, stepDistance),
                  y |-> currentY + Mul(directionY, stepDistance)]

\* Faulty variant: the interval is measured from startTime.
Throttled_SinceStart(m, t) == (t - m.startTime) * 100 < UpdateIntervalCenti

\* updateMovement, lines 106-112: the call comes before the update interval.
Throttled(m, t) == (t - m.lastUpdateTime) * 100 < UpdateIntervalCenti

\* updateMovement, lines 114-125: the sprite is within 0.01 m of the target.
Arrived(sp, finalTargetX, finalTargetY, metersPerPixel) ==
    LET dx == finalTargetX - sp.x
        dy == finalTargetY - sp.y
        remainingPixels == Sqrt(dx * dx + dy * dy)
        remainingMeters == Mul(remainingPixels, metersPerPixel)
    IN  remainingMeters < ArrivalMilli

\* Faulty variant: every step is taken to last one update interval.
AppliedStep_FrameTime(sp, m, t, finalTargetX, finalTargetY, speed, timeScale, metersPerPixel) ==
    LET distanceToMoveMeters == Mul(Mul(speed, timeScale), UpdateIntervalCenti \div 100)
        distanceToMovePixels == Div(distanceToMoveMeters, metersPerPixel)
        nextTarget == calculateNextTarget(sp.x, sp.y, finalTargetX, finalTargetY,
                          distanceToMovePixels + m.accumulatedError)
        actualDistance == Sqrt((nextTarget.x - sp.x) * (nextTarget.x - sp.x)
                               + (nextTarget.y - sp.y) * (nextTarget.y - sp.y))
    IN  [sprite |-> nextTarget,
         mover  |-> [m EXCEPT !.accumulatedError = distanceToMovePixels - actualDistance,
                              !.lastUpdateTime = t,
                              !.lastPosition = nextTarget],
         ret    |-> FALSE]

\* Faulty variant: the carried error is not added to the step distance.
AppliedStep_NoCarry(sp, m, t, finalTargetX, finalTargetY, speed, timeScale, metersPerPixel) ==
    LET deltaTime == t - m.lastUpdateTime
        distanceToMoveMeters == Mul(Mul(speed, timeScale), deltaTime)
        distanceToMovePixels == Div(distanceToMoveMeters, metersPerPixel)
        nextTarget == calculateNextTarget(sp.x, sp.y, finalTargetX, finalTargetY,
                          distanceToMovePixels)
        actualDistance == Sqrt((nextTarget.x - sp.x) * (nextTarget.x - sp.x)
                               + (nextTarget.y - sp.y) * (nextTarget.y - sp.y))
    IN  [sprite |-> nextTarget,
         mover  |-> [m EXCEPT !.accumulatedError = distanceToMovePixels - actualDistance,
                              !.lastUpdateTime = t,
                              !.lastPosition = nextTarget],
         ret    |-> FALSE]

\* updateMovement, lines 127-155: the step that is applied.
AppliedStep(sp, m, t, finalTargetX, finalTargetY, speed, timeScale, metersPerPixel) ==
    LET deltaTime == t - m.lastUpdateTime
        timeElapsedSeconds == deltaTime
        distanceToMoveMeters == Mul(Mul(speed, timeScale), timeElapsedSeconds)
        distanceToMovePixels == Div(distanceToMoveMeters, metersPerPixel)
        nextTarget == calculateNextTarget(sp.x, sp.y, finalTargetX, finalTargetY,
                          distanceToMovePixels + m.accumulatedError)
        actualDx == nextTarget.x - sp.x
        actualDy == nextTarget.y - sp.y
        actualDistance == Sqrt(actualDx * actualDx + actualDy * actualDy)
        intendedDistance == distanceToMovePixels
    IN  [sprite |-> nextTarget,
         mover  |-> [m EXCEPT !.accumulatedError = intendedDistance - actualDistance,
                              !.lastUpdateTime = t,
                              !.lastPosition = nextTarget],
         ret    |-> FALSE]

\* Faulty variant: the isMoving check is missing.
UpdateMovement_NoIdleCheck(sp, m, t, finalTargetX, finalTargetY, speed, timeScale, metersPerPixel) ==
    IF Throttled(m, t)
    THEN [sprite |-> sp, mover |-> m, ret |-> FALSE]
    ELSE IF Arrived(sp, finalTargetX, finalTargetY, metersPerPixel)
    THEN [sprite |-> [x |-> finalTargetX, y |-> finalTargetY],
          mover  |-> [m EXCEPT !.isMoving = FALSE],
          ret    |-> TRUE]
    ELSE AppliedStep(sp, m, t, finalTargetX, finalTargetY, speed, timeScale,
                     metersPerPixel)

\* Faulty variant: the arrival branch leaves isMoving set.
UpdateMovement_StaysMoving(sp, m, t, finalTargetX, finalTargetY, speed, timeScale, metersPerPixel) ==
    IF ~m.isMoving
    THEN [sprite |-> sp, mover |-> m, ret |-> FALSE]
    ELSE IF Throttled(m, t)
    THEN [sprite |-> sp, mover |-> m, ret |-> FALSE]
    ELSE IF Arrived(sp, finalTargetX, finalTargetY, metersPerPixel)
    THEN [sprite |-> [x |-> finalTargetX, y |-> finalTargetY],
          mover  |-> m,
          ret    |-> TRUE]
    ELSE AppliedStep(sp, m, t, finalTargetX, finalTargetY, speed, timeScale,
                     metersPerPixel)

\* updateMovement: the new sprite position, the new fields and the value returned.
UpdateMovement(sp, m, t, finalTargetX, finalTargetY, speed, timeScale, metersPerPixel) ==
    IF ~m.isMoving
    THEN [sprite |-> sp, mover |-> m, ret |-> FALSE]
    ELSE IF Throttled(m, t)
    THEN [sprite |-> sp, mover |-> m, ret |-> FALSE]
    ELSE IF Arrived(sp, finalTargetX, finalTargetY, metersPerPixel)
    THEN [sprite |-> [x |-> finalTargetX, y |-> finalTargetY],
          mover  |-> [m EXCEPT !.isMoving = FALSE],
          ret    |-> TRUE]
    ELSE AppliedStep(sp, m, t, finalTargetX, finalTargetY, speed, timeScale,
                     metersPerPixel)

----------------------------------------------------------------------------
\* PathMovementController.  Waypoints are pairs <<x, y>>; currentTargetIndex
\* counts from 0 as in the code.
PathA == <<68, 0>>
PathB == <<68, 68>>

PathLists == { <<>>, <<PathA>>, <<PathA, PathB>>, <<<<0, 0>>, PathA>> }
PathSpeeds == { 1000, 2000 }
PathDeltas == { 34 }

NoPathCall == [op |-> "new", at |-> 0, arg |-> <<>>]

\* constructor (the preciseMover it allocates is NewMover)
NewPathCtl == [isMoving |-> FALSE, pathNodes |-> <<>>, currentTargetIndex |-> 0]

\* Faulty variant: the caller's array is stored, not a copy of it.
StartPathMovement_NoCopy(ctl, pathNodeCoordinates, speed) ==
    IF Len(pathNodeCoordinates) = 0
    THEN [ctl |-> ctl, copied |-> FALSE, ret |-> FALSE]
    ELSE [ctl |-> [isMoving |-> TRUE, pathNodes |-> pathNodeCoordinates,
                   currentTargetIndex |-> 0],
          copied |-> FALSE, ret |-> TRUE]

\* Faulty variant: the cursor of the earlier path is kept.
StartPathMovement_KeepIndex(ctl, pathNodeCoordinates, speed) ==
    IF Len(pathNodeCoordinates) = 0
    THEN [ctl |-> ctl, copied |-> FALSE, ret |-> FALSE]
    ELSE [ctl |-> [isMoving |-> TRUE, pathNodes |-> pathNodeCoordinates,
                   currentTargetIndex |-> ctl.currentTargetIndex],
          copied |-> TRUE, ret |-> TRUE]

\* startPathMovement: the new fields, whether pathNodes is a new array, and
\* the value returned.
StartPathMovement(ctl, pathNodeCoordinates, speed) ==
    IF Len(pathNodeCoordinates) = 0
    THEN [ctl |-> ctl, copied |-> FALSE, ret |-> FALSE]
    ELSE [ctl |-> [isMoving |-> TRUE, pathNodes |-> pathNodeCoordinates,
                   currentTargetIndex |-> 0],
          copied |-> TRUE, ret |-> TRUE]

\* Faulty variant: the caller starts the controller whatever its state.
NeedsStart_Always(m) == TRUE

\* The callers' test before startMovement: if (!movement.isMoving).
NeedsStart(m) == ~m.isMoving

\* Faulty variant: the path stays active after its last waypoint.
AfterArrival_StaysActive(ctl, r) ==
    IF ctl.currentTargetIndex + 1 < Len(ctl.pathNodes)
    THEN [ctl |-> [ctl EXCEPT !.currentTargetIndex = ctl.currentTargetIndex + 1],
          mover |-> NewMover, ret |-> FALSE]
    ELSE [ctl |-> [ctl EXCEPT !.currentTargetIndex = ctl.currentTargetIndex + 1],
          mover |-> r.mover, ret |-> TRUE]

\* Faulty variant: arrival at any waypoint ends the path.
AfterArrival_EndsPath(ctl, r) ==
    [ctl |-> [ctl EXCEPT !.currentTargetIndex = ctl.currentTargetIndex + 1,
                         !.isMoving = FALSE],
     mover |-> r.mover, ret |-> TRUE]

\* updatePathMovement, lines 238-251: the leg controller reported arrival.
AfterArrival(ctl, r) ==
    IF ctl.currentTargetIndex + 1 < Len(ctl.pathNodes)
    THEN [ctl |-> [ctl EXCEPT !.currentTargetIndex = ctl.currentTargetIndex + 1],
          mover |-> NewMover, ret |-> FALSE]
    ELSE [ctl |-> [ctl EXCEPT !.currentTargetIndex = ctl.currentTargetIndex + 1,
                              !.isMoving = FALSE],
          mover |-> r.mover, ret |-> TRUE]

\* Faulty variant: a call on an inactive path controller answers false.
UpdatePathMovement_IdleFalse(ctl, m, sp, t, speed, timeScale, metersPerPixel) ==
    IF ~ctl.isMoving \/ ctl.currentTargetIndex >= Len(ctl.pathNodes)
    THEN [ctl |-> ctl, mover |-> m, sprite |-> sp, ret |-> FALSE, called |-> FALSE,
          reached |-> FALSE, started |-> FALSE, restarted |-> FALSE,
          stepped |-> [sprite |-> sp, mover |-> m, ret |-> FALSE],
          startedMover |-> m]
    ELSE LET currentTarget == ctl.pathNodes[ctl.currentTargetIndex + 1]
             start == NeedsStart(m)
             m1 == IF start THEN StartMovement(m, t, sp.x, sp.y, speed) ELSE m
             r == UpdateMovement(sp, m1, t, currentTarget[1], currentTarget[2],
                                 speed, timeScale, metersPerPixel)
             a == AfterArrival(ctl, r)
         IN  [ctl |-> IF r.ret THEN a.ctl ELSE ctl,
              mover |-> IF r.ret THEN a.mover ELSE r.mover,
              sprite |-> r.sprite,
              ret |-> IF r.ret THEN a.ret ELSE FALSE,
              called |-> TRUE, reached |-> r.ret,
              started |-> start, restarted |-> start /\ m.isMoving,
              stepped |-> r, startedMover |-> m1]

\* updatePathMovement: the new fields of the path controller and of its
\* preciseMover, the new sprite position, the value returned, and what the
\* call did on the way: called reports that updateMovement was called,
\* reached what it returned, started and restarted that startMovement was
\* called, and called on a Moving controller; startedMover and stepped are
\* the preciseMover after startMovement and the result of updateMovement.
UpdatePathMovement(ctl, m, sp, t, speed, timeScale, metersPerPixel) ==
    IF ~ctl.isMoving \/ ctl.currentTargetIndex >= Len(ctl.pathNodes)
    THEN [ctl |-> ctl, mover |-> m, sprite |-> sp, ret |-> TRUE, called |-> FALSE,
          reached |-> FALSE, started |-> FALSE, restarted |-> FALSE,
          stepped |-> [sprite |-> sp, mover |-> m, ret |-> FALSE],
          startedMover |-> m]
    ELSE LET currentTarget == ctl.pathNodes[ctl.currentTargetIndex + 1]
             start == NeedsStart(m)
             m1 == IF start THEN StartMovement(m, t, sp.x, sp.y, speed) ELSE m
             r == UpdateMovement(sp, m1, t, currentTarget[1], currentTarget[2],
                                 speed, timeScale, metersPerPixel)
             a == AfterArrival(ctl, r)
         IN  [ctl |-> IF r.ret THEN a.ctl ELSE ctl,
              mover |-> IF r.ret THEN a.mover ELSE r.mover,
              sprite |-> r.sprite,
              ret |-> IF r.ret THEN a.ret ELSE FALSE,
              called |-> TRUE, reached |-> r.ret,
              started |-> start, restarted |-> start /\ m.isMoving,
              stepped |-> r, startedMover |-> m1]

\* Faulty variant: reset leaves the path controller active.
ResetPath_StaysActive == [isMoving |-> TRUE, pathNodes |-> <<>>, currentTargetIndex |-> 0]

\* reset
ResetPath == NewPathCtl

----------------------------------------------------------------------------
\* The move blocks.  this.timeScale keeps the constructor's 1.0 (setTimeScale
\* is not modelled); the target of moveToCoordinateWithSpeed is what
\* convertLatLngToScratch gives, and metersPerPixel what getMetersPerPixel
\* gives.
SpriteIds == { 1, 2 }
BlockTargets == { <<0, 0>>, <<68, 0>> }
BlockSpeeds == { 2000 }

NoBlockCall == [op |-> "new", id |-> 0, at |-> 0, x |-> 0, y |-> 0]

\* Faulty variant: deleting one sprite's controller empties the registry.
MapDelete_Clear(m, k) == EmptyMap

MapDelete(m, k) == [kk \in (DOMAIN m) \ {k} |-> m[kk]]

\* Faulty variant: a block that completes leaves the controller registered.
MoveBlock_KeepsController(reg, pos, id, t, targetX, targetY, speed, timeScale, metersPerPixel) ==
    LET movement == IF id \in DOMAIN reg THEN reg[id] ELSE NewMover
        start == NeedsStart(movement)
        started == IF start THEN StartMovement(movement, t, pos.x, pos.y, speed)
                   ELSE movement
        r == UpdateMovement(pos, started, t, targetX, targetY, speed, timeScale,
                            metersPerPixel)
    IN  [reg |-> MapSet(reg, id, r.mover),
         pos |-> r.sprite,
         yields |-> ~r.ret,
         restarted |-> start /\ movement.isMoving]

\* The body the three move blocks share: get or create the sprite's
\* controller, start it if it is not Moving, step it, then yield, or delete
\* the controller when the step reported arrival.
MoveBlock(reg, pos, id, t, targetX, targetY, speed, timeScale, metersPerPixel) ==
    LET movement == IF id \in DOMAIN reg THEN reg[id] ELSE NewMover
        start == NeedsStart(movement)
        started == IF start THEN StartMovement(movement, t, pos.x, pos.y, speed)
                   ELSE movement
        r == UpdateMovement(pos, started, t, targetX, targetY, speed, timeScale,
                            metersPerPixel)
    IN  [reg |-> IF r.ret THEN MapDelete(reg, id) ELSE MapSet(reg, id, r.mover),
         pos |-> r.sprite,
         yields |-> ~r.ret,
         restarted |-> start /\ movement.isMoving]

----------------------------------------------------------------------------
\* The path-query blocks findPathFromScratchData and findPathToPathList.
\* They read five lists of the stage; a list that does not exist is read as
\* null.  The entries are numbers; an index past the end of a list reads
\* undefined, and Number(undefined) is NaN.  The stage and the list Path
\* exist.
NoList == [found |-> FALSE, value |-> <<>>]

List(v) == [found |-> TRUE, value |-> v]

NoLists == [ids |-> NoList, xs |-> NoList, ys |-> NoList, froms |-> NoList, tos |-> NoList]

NodeIdLists == { List(<<1, 2>>), List(<<1, 2, 3>>) }
NodeXLists == { List(<<0, 50>>), List(<<0, 50, 50>>) }
NodeYLists == { List(<<0, 0>>), List(<<0, 0, 50>>) }
LinkFromLists == { List(<<1>>), List(<<1, 2>>) }
LinkToLists == { List(<<2>>), List(<<2, 3>>), NoList }
QueryStarts == { 1, 3 }
QueryGoals == { 2, 3 }

NoQuery == [op |-> "new", start |-> Null, goal |-> Null, state |-> "returned"]

NoAnswer == [kind |-> "none", text |-> ""]

\* displayXs[i] and the like, through Number().
ElemOrNaN(list, i) == IF i <= Len(list) THEN list[i] ELSE NaN

\* The loop that fills nodeArray: one row for every entry of displayNodeIDs.
NodeArray(ids, xs, ys) ==
    [i \in 1..Len(ids) |-> <<ids[i], ElemOrNaN(xs, i), ElemOrNaN(ys, i)>>]

\* nodeArray.find(node => node[0] === id); <<>> stands for undefined.
FindNode(nodeArray, id) ==
    LET hits == { i \in 1..Len(nodeArray) : id # NaN /\ nodeArray[i][1] = id }
    IN  IF hits = {} THEN <<>>
        ELSE nodeArray[CHOOSE i \in hits : \A j \in hits : i <= j]

\* The Euclidean distance of two rows of nodeArray.
LinkDistance(fromNode, toNode) ==
    IF fromNode[2] = NaN \/ fromNode[3] = NaN \/ toNode[2] = NaN \/ toNode[3] = NaN
    THEN NaN
    ELSE LET dx == toNode[2] - fromNode[2]
             dy == toNode[3] - fromNode[3]
         IN  Sqrt(dx * dx + dy * dy)

\* The loop that fills linkArray: one row for every entry of displayLinkFroms
\* whose two ends are found in nodeArray.
RECURSIVE LinkArrayFrom(_, _, _, _, _)
LinkArrayFrom(nodeArray, froms, tos, i, acc) ==
    IF i > Len(froms) THEN acc
    ELSE LET fromNodeId == froms[i]
             toNodeId == ElemOrNaN(tos, i)
             fromNode == FindNode(nodeArray, fromNodeId)
             toNode == FindNode(nodeArray, toNodeId)
         IN  LinkArrayFrom(nodeArray, froms, tos, i + 1,
                 IF fromNode # <<>> /\ toNode # <<>>
                 THEN Append(acc, <<fromNodeId, toNodeId,
                                    LinkDistance(fromNode, toNode)>>)
                 ELSE acc)

LinkArray(nodeArray, froms, tos) == LinkArrayFrom(nodeArray, froms, tos, 1, <<>>)

\* The tests on the lists a block has read.
ListsMissing(d) ==
    ~d.ids.found \/ ~d.xs.found \/ ~d.ys.found \/ ~d.froms.found \/ ~d.tos.found

NodeLengthsDiffer(d) ==
    Len(d.ids.value) # Len(d.xs.value) \/ Len(d.ids.value) # Len(d.ys.value)

LinkLengthsDiffer(d) == Len(d.froms.value) # Len(d.tos.value)

\* findPathFromScratchData, lines 1269-1280: the error it returns before it
\* builds anything ("": none).
FromScratchDataRefusal(d) ==
    IF ListsMissing(d) THEN "error: no network data"
    ELSE IF NodeLengthsDiffer(d) THEN "error: node lengths differ"
    ELSE IF LinkLengthsDiffer(d) THEN "error: link lengths differ"
    ELSE ""

\* findPathToPathList, lines 1459-1462: it returns undefined.
ToPathListRefusal(d) == IF ListsMissing(d) THEN "undefined" ELSE ""

\* findPath, lines 322-347, on the graph that was just set: the early
\* returns, or the search state before the first iteration.
FindPathStart(nodeMap, s, g) ==
    IF s \notin DOMAIN nodeMap \/ g \notin DOMAIN nodeMap
    THEN [pc |-> "done", open |-> <<>>, g |-> EmptyMap, f |-> EmptyMap,
          result |-> <<>>]
    ELSE IF s = g
    THEN [pc |-> "done", open |-> <<>>, g |-> EmptyMap, f |-> EmptyMap,
          result |-> <<s>>]
    ELSE [pc |-> "search", open |-> <<s>>,
          g |-> [id \in DOMAIN nodeMap |-> IF id = s THEN 0 ELSE Infinity],
          f |-> [id \in DOMAIN nodeMap |->
                   IF id = s THEN heuristic(nodeMap[s], nodeMap[g]) ELSE Infinity],
          result |-> <<>>]

\* path.forEach(nodeId => list.value.push(String(nodeId)))
Strings(path) == [i \in 1..Len(path) |-> ToString(path[i])]

\* path.join(',')
RECURSIVE JoinFrom(_, _, _)
JoinFrom(path, i, acc) ==
    IF i > Len(path) THEN acc
    ELSE JoinFrom(path, i + 1,
                  IF i = 1 THEN ToString(path[i]) ELSE acc \o "," \o ToString(path[i]))

Join(path) == JoinFrom(path, 1, "")

----------------------------------------------------------------------------

\* The projection functions.  Degrees are held in millionths, the unit of
\* toFixed(6); positions in the world and plane coordinates are held in
\* 1e-9 of worldWidth (256 * 2^zoom pixels), so that the zoom is a unit and
\* not a factor.  A value is a number or NaN.
Num(v) == [kind |-> "number", v |-> v]

NotANumber == [kind |-> "NaN", v |-> 0]

NoValue == [kind |-> "none", v |-> 0]

IsNum(a) == a.kind = "number"

Plus(a, b) == IF IsNum(a) /\ IsNum(b) THEN Num(a.v + b.v) ELSE NotANumber

Minus(a, b) == IF IsNum(a) /\ IsNum(b) THEN Num(a.v - b.v) ELSE NotANumber

\* a * m / d without leaving 32 bits, truncated.
MulDiv(a, m, d) ==
    IF a >= 0 THEN (a \div d) * m + ((a % d) * m) \div d
    ELSE -(((-a) \div d) * m + (((-a) % d) * m) \div d)

\* The map centres and the arguments of the calls.  Tokyo is the centre the
\* constructor sets.
Tokyo == [centerLatitude |-> 35689185, centerLongitude |-> 139691648]

Centers == { Tokyo, [centerLatitude |-> -60000000, centerLongitude |-> -122400000] }

LatitudeArgs ==
    { Num(-84900000), Num(-60000000), Num(0), Num(35689185), Num(84900000),
      Num(100000000), NotANumber }

LongitudeArgs ==
    { Num(-180000000), Num(-122400000), Num(139691648), Num(200000000), NotANumber }

PlaneArgs == { [x |-> Num(0), y |-> Num(0)], [x |-> NotANumber, y |-> Num(0)],
               [x |-> Num(0), y |-> NotANumber] }

\* (0.5 - Math.log((1 + sin) / (1 - sin)) / (4 * Math.PI)) with sin the sine
\* of the latitude, at the latitudes used: the values the expression has in
\* double arithmetic, rounded to 1e-9.  sin(100 deg) is sin(80 deg).
MercatorRows ==
    << <<84900000, 4793685>>, <<100000000, 112259398>>, <<60000000, 290399641>>,
       <<35689185, 393750823>>, <<0, 500000000>>, <<-35689185, 606249177>>,
       <<-60000000, 709600359>>, <<-84900000, 995206315>> >>

\* Math.atan(Math.sinh(Math.PI * (1 - 2 * y))) * 180 / Math.PI at the world
\* positions above: the values the expression has in double arithmetic,
\* rounded to 1e-6 as toFixed(6) does.
InverseRows ==
    << <<4793685, 84900000>>, <<112259398, 80000000>>, <<290399641, 60000000>>,
       <<393750823, 35689185>>, <<500000000, 0>>, <<606249177, -35689185>>,
       <<709600359, -60000000>>, <<995206315, -84900000>> >>

\* The world position of a latitude (targetPixelY, centerPixelY).
WorldY(latitude) ==
    IF ~IsNum(latitude) THEN NotANumber
    ELSE LET i == CHOOSE j \in 1..Len(MercatorRows) : MercatorRows[j][1] = latitude.v
         IN  Num(MercatorRows[i][2])

\* The world position of a longitude: ((longitude + 180) / 360) * worldWidth.
WorldX(longitude) ==
    IF ~IsNum(longitude) THEN NotANumber
    ELSE Num(MulDiv(longitude.v + 180000000, 25, 9))

\* The latitude of a world position; between the tabulated positions the
\* nearest one is taken.
LatitudeOf(targetPixelY) ==
    IF ~IsNum(targetPixelY) THEN NotANumber
    ELSE LET i == CHOOSE j \in 1..Len(InverseRows) :
                      \A k \in 1..Len(InverseRows) :
                          \/ Abs(InverseRows[j][1] - targetPixelY.v)
                                 < Abs(InverseRows[k][1] - targetPixelY.v)
                          \/ /\ Abs(InverseRows[j][1] - targetPixelY.v)
                                    = Abs(InverseRows[k][1] - targetPixelY.v)
                             /\ j <= k
         IN  Num(InverseRows[i][2])

\* The longitude of a world position: (targetPixelX / worldWidth) * 360 - 180.
LongitudeOf(targetPixelX) ==
    IF ~IsNum(targetPixelX) THEN NotANumber
    ELSE Num(MulDiv(targetPixelX.v, 9, 25) - 180000000)

\* convertLatLngToScratch
convertLatLngToScratch(tm, latitude, longitude) ==
    LET centerPixelX == WorldX(Num(tm.centerLongitude))
        centerPixelY == WorldY(Num(tm.centerLatitude))
        targetPixelX == WorldX(longitude)
        targetPixelY == WorldY(latitude)
    IN  [x |-> Minus(targetPixelX, centerPixelX),
         y |-> Minus(centerPixelY, targetPixelY)]

\* Faulty variant: the plane's y axis is not flipped back.
getScratchCoordinateLocation_NoFlip(tm, scratchX, scratchY) ==
    [latitude |-> LatitudeOf(Plus(WorldY(Num(tm.centerLatitude)), scratchY)),
     longitude |-> LongitudeOf(Plus(WorldX(Num(tm.centerLongitude)), scratchX))]

\* getScratchCoordinateLocation
getScratchCoordinateLocation(tm, scratchX, scratchY) ==
    LET centerPixelX == WorldX(Num(tm.centerLongitude))
        centerPixelY == WorldY(Num(tm.centerLatitude))
        targetPixelX == Plus(centerPixelX, scratchX)
        targetPixelY == Minus(centerPixelY, scratchY)
    IN  [latitude |-> LatitudeOf(targetPixelY),
         longitude |-> LongitudeOf(targetPixelX)]

\* getScratchCoordinateLatitude; nothing in its try block throws.
getScratchCoordinateLatitude(tm, scratchX, scratchY) ==
    LET centerPixelY == WorldY(Num(tm.centerLatitude))
        targetPixelY == Minus(centerPixelY, scratchY)
    IN  LatitudeOf(targetPixelY)

\* getScratchCoordinateLongitude; nothing in its try block throws.
getScratchCoordinateLongitude(tm, scratchX, scratchY) ==
    LET centerPixelX == WorldX(Num(tm.centerLongitude))
        targetPixelX == Plus(centerPixelX, scratchX)
    IN  LongitudeOf(targetPixelX)

NoConversion ==
    [latitude |-> NoValue, longitude |-> NoValue, center |-> Tokyo,
     point |-> [x |-> NoValue, y |-> NoValue], outcome |-> "none"]

NoLocation ==
    [op |-> "new", point |-> [x |-> NoValue, y |-> NoValue], center |-> Tokyo,
     latitude |-> NoValue, longitude |-> NoValue, outcome |-> "none"]

\* TileCache.  An image is known by the server that delivered it; an image
\* that reached the cache was delivered by onload, so it is complete.
DefaultMaxSize == 200

MaxPending == 2     \* getImage calls that wait for a server at one time

Tiles == { <<18, 0, 0>>, <<18, 1, 0>>, <<18, 0, 1>> }

CacheSizes == { 0, 1, 2 }

\* getTileKey
getTileKey(zoom, x, y) == ToString(zoom) \o "_" \o ToString(x) \o "_" \o ToString(y)

TileKeys == { getTileKey(t[1], t[2], t[3]) : t \in Tiles }

Image(server) == [server |-> server, complete |-> TRUE]

NoImage == [server |-> "none", complete |-> FALSE]

NoCacheCall ==
    [op |-> "new", key |-> "", returned |-> NoImage, fetches |-> 0, evicted |-> <<>>]

\* The keys of the cache, in the order of Map.keys().
CacheKeys(c) == [i \in 1..Len(c) |-> c[i].key]

\* this.cache.has(key)
CacheHas(c, key) == \E i \in 1..Len(c) : c[i].key = key

\* this.cache.get(key), for a key the cache has.
CacheGet(c, key) == c[CHOOSE i \in 1..Len(c) : c[i].key = key].image

\* Faulty variant: the image is not stored.
CacheSet_Skip(c, key, image) == c

\* this.cache.set(key, image): a key the Map has keeps its place.
CacheSet(c, key, image) ==
    IF CacheHas(c, key)
    THEN [i \in 1..Len(c) |-> IF c[i].key = key THEN [key |-> key, image |-> image]
                                                ELSE c[i]]
    ELSE Append(c, [key |-> key, image |-> image])

\* How many entries manageCacheSize deletes from the front.
Excess(c, m) == IF Len(c) > m THEN Len(c) - m ELSE 0

\* Faulty variant: nothing is deleted.
manageCacheSize_Off(c, m) == c

\* manageCacheSize
manageCacheSize(c, m) == SubSeq(c, Excess(c, m) + 1, Len(c))

\* The keys in the order of their last use, the latest last.
Without(seq, key) == SelectSeq(seq, LAMBDA k : k # key)

Used(seq, key) == Append(Without(seq, key), key)

RECURSIVE Kept(_, _)
Kept(seq, c) ==
    IF seq = <<>> THEN <<>>
    ELSE IF CacheHas(c, Head(seq)) THEN <<Head(seq)>> \o Kept(Tail(seq), c)
    ELSE Kept(Tail(seq), c)

----------------------------------------------------------------------------

Init ==
    /\ nodes = EmptyMap
    /\ links = EmptyMap
    /\ pc = "idle"
    /\ startId = Null
    /\ goalId = Null
    /\ openSet = <<>>
    /\ cameFrom = EmptyMap
    /\ gScore = EmptyMap
    /\ fScore = EmptyMap
    /\ current = Null
    /\ iters = 0
    /\ result = <<>>
    /\ lastOp = "new"
    /\ lastList = <<>>
    /\ display = NoLists
    /\ query = NoQuery
    /\ queryRet = NoAnswer
    /\ pathList = <<>>
    /\ shortestList = <<>>
    /\ resultVar = ""
    /\ tileMap = Tokyo
    /\ converted = NoConversion
    /\ located = NoLocation
    /\ cache = <<>>
    /\ maxSize = DefaultMaxSize
    /\ pending = <<>>
    /\ recent = <<>>
    /\ cacheCall = NoCacheCall
    /\ now = 0
    /\ sprite = [x |-> 0, y |-> 0]
    /\ mover = NewMover
    /\ ret = FALSE
    /\ call = NoCall
    /\ movedAt = -1
    /\ drift = 0
    /\ worst = 0
    /\ trues = 0
    /\ leg = NoLeg
    /\ pathCtl = NewPathCtl
    /\ pathArg = <<>>
    /\ sharesArg = FALSE
    /\ pathRet = FALSE
    /\ pathCall = NoPathCall
    /\ restarted = FALSE
    /\ preciseMovements = EmptyMap
    /\ stage = [id \in SpriteIds |-> [x |-> 0, y |-> 0]]
    /\ blockCall = NoBlockCall
    /\ yielded = FALSE
    /\ preciseMovement = <<>>

\* No call is running (the host calls from one thread).
NotSearching == pc = "idle"

\* The locals of a findPath call that has returned no longer exist.
DropLocals ==
    /\ pc' = "idle"
    /\ startId' = Null
    /\ goalId' = Null
    /\ openSet' = <<>>
    /\ cameFrom' = EmptyMap
    /\ gScore' = EmptyMap
    /\ fScore' = EmptyMap
    /\ current' = Null
    /\ iters' = 0
    /\ result' = <<>>

setNodes ==
    /\ NotSearching
    /\ \E nodeList \in NodeLists :
          /\ nodes' = SetNodesMap(nodes, nodeList)
          /\ lastOp' = "setNodes"
          /\ lastList' = nodeList
    /\ UNCHANGED links
    /\ UNCHANGED searchVars
    /\ UNCHANGED <<actorVars, hostVars>>

setLinks ==
    /\ NotSearching
    /\ \E linkList \in LinkLists :
          /\ links' = SetLinksMap(links, linkList)
          /\ lastOp' = "setLinks"
          /\ lastList' = linkList
    /\ UNCHANGED nodes
    /\ UNCHANGED searchVars
    /\ UNCHANGED <<actorVars, hostVars>>

\* findPath, lines 322-333: the early returns.
EndpointMissing(s, g) == s \notin DOMAIN nodes \/ g \notin DOMAIN nodes

\* Faulty variant: equal ids are answered with both endpoints.
EarlyResult_Pair(s, g) == IF EndpointMissing(s, g) THEN <<>> ELSE <<s, g>>

\* Faulty variant: equal ids are answered before the ids are looked up.
EarlyResult_SelfFirst(s, g) == IF s = g THEN <<s>> ELSE <<>>

EarlyResult(s, g) == IF EndpointMissing(s, g) THEN <<>> ELSE <<s>>

findPathReturnEarly ==
    /\ NotSearching
    /\ \E s \in QueryIds, g \in QueryIds :
          /\ EndpointMissing(s, g) \/ s = g
          /\ startId' = s
          /\ goalId' = g
          /\ result' = EarlyResult(s, g)
    /\ pc' = "done"
    /\ openSet' = <<>>
    /\ cameFrom' = EmptyMap
    /\ gScore' = EmptyMap
    /\ fScore' = EmptyMap
    /\ current' = Null
    /\ iters' = 0
    /\ lastOp' = "findPath"
    /\ lastList' = <<>>
    /\ UNCHANGED <<nodes, links>>
    /\ UNCHANGED <<actorVars, hostVars>>

\* findPath, lines 335-347: the search state before the first iteration.
findPathBegin ==
    /\ NotSearching
    /\ \E s \in QueryIds, g \in QueryIds :
          /\ ~EndpointMissing(s, g)
          /\ s # g
          /\ startId' = s
          /\ goalId' = g
          /\ openSet' = <<s>>
          /\ gScore' = [id \in DOMAIN nodes |-> IF id = s THEN 0 ELSE Infinity]
          /\ fScore' = [id \in DOMAIN nodes |->
                          IF id = s THEN heuristic(nodes[s], nodes[g])
                          ELSE Infinity]
    /\ cameFrom' = EmptyMap
    /\ current' = Null
    /\ iters' = 0
    /\ result' = <<>>
    /\ pc' = "search"
    /\ lastOp' = "findPath"
    /\ lastList' = <<>>
    /\ UNCHANGED <<nodes, links>>
    /\ UNCHANGED <<actorVars, hostVars>>

\* findPath, lines 349-383: one iteration of the while loop.
findPathIterate ==
    /\ pc = "search"
    /\ openSet # <<>>
    /\ iters < MaxIters
    /\ LET cur == SelectCurrent(openSet, fScore)
           neighbors == IF cur \in DOMAIN links THEN links[cur] ELSE <<>>
           st == RelaxFrom([open |-> SetDelete(openSet, cur), came |-> cameFrom,
                            g |-> gScore, f |-> fScore],
                           cur, neighbors, 1, nodes[goalId])
       IN  /\ current' = cur
           /\ IF cur = goalId
              THEN /\ result' = reconstructPath(cameFrom, cur)
                   /\ pc' = "done"
                   /\ UNCHANGED <<openSet, cameFrom, gScore, fScore>>
              ELSE /\ openSet' = st.open
                   /\ cameFrom' = st.came
                   /\ gScore' = st.g
                   /\ fScore' = st.f
                   /\ UNCHANGED <<result, pc>>
    /\ iters' = iters + 1
    /\ UNCHANGED <<nodes, links, startId, goalId, lastOp, lastList>>
    /\ UNCHANGED <<actorVars, hostVars>>

\* findPath, lines 349 and 385-386: the open set is empty.
findPathExhausted ==
    /\ pc = "search"
    /\ openSet = <<>>
    /\ result' = <<>>
    /\ pc' = "done"
    /\ UNCHANGED <<nodes, links, startId, goalId, openSet, cameFrom, gScore,
                   fScore, current, iters, lastOp, lastList>>
    /\ UNCHANGED <<actorVars, hostVars>>

\* findPath has returned: the caller has the result, the locals are gone.
findPathReturn ==
    /\ pc = "done"
    /\ DropLocals
    /\ UNCHANGED <<nodes, links, lastOp, lastList>>
    /\ UNCHANGED <<actorVars, hostVars>>

NextPathfinder ==
    \/ setNodes
    \/ setLinks
    \/ findPathReturnEarly
    \/ findPathBegin
    \/ findPathIterate
    \/ findPathExhausted
    \/ findPathReturn

SpecPathfinder == Init /\ [][NextPathfinder]_vars

----------------------------------------------------------------------------
\* The path-query blocks.  A block invocation runs to its end before another
\* block or an edit of the lists is run; the iterations of its findPath call
\* are the steps findPathIterate and findPathExhausted.
editLists ==
    /\ NotSearching
    /\ \E ids \in NodeIdLists, xs \in NodeXLists, ys \in NodeYLists,
          froms \in LinkFromLists, tos \in LinkToLists :
          display' = [ids |-> ids, xs |-> xs, ys |-> ys, froms |-> froms, tos |-> tos]
    /\ query' = [op |-> "editLists", start |-> Null, goal |-> Null, state |-> "returned"]
    /\ UNCHANGED <<queryRet, pathList, shortestList, resultVar>>
    /\ UNCHANGED <<nodes, links, searchVars, lastOp, lastList, nonQueryVars>>

\* A block up to the first iteration of its search: refusal is the error it
\* returns for the lists as they are ("": none).
QueryStart(op, refusal) ==
    /\ NotSearching
    /\ \E s \in QueryStarts, g \in QueryGoals :
          IF refusal # ""
          THEN /\ query' = [op |-> op, start |-> s, goal |-> g, state |-> "returned"]
               /\ queryRet' = [kind |-> refusal, text |-> ""]
               /\ UNCHANGED <<nodes, links, searchVars, lastOp, lastList>>
          ELSE \E nodeArray \in { NodeArray(display.ids.value, display.xs.value,
                                            display.ys.value) } :
               \E linkArray \in { LinkArray(nodeArray, display.froms.value,
                                            display.tos.value) } :
               \E st \in { FindPathStart(SetNodesMap(nodes, nodeArray), s, g) } :
                   /\ nodes' = SetNodesMap(nodes, nodeArray)
                   /\ links' = SetLinksMap(links, linkArray)
                   /\ startId' = s
                   /\ goalId' = g
                   /\ pc' = st.pc
                   /\ openSet' = st.open
                   /\ cameFrom' = EmptyMap
                   /\ gScore' = st.g
                   /\ fScore' = st.f
                   /\ current' = Null
                   /\ iters' = 0
                   /\ result' = st.result
                   /\ lastOp' = "findPath"
                   /\ lastList' = <<>>
                   /\ query' = [op |-> op, start |-> s, goal |-> g, state |-> "searching"]
                   /\ queryRet' = NoAnswer
    /\ UNCHANGED <<display, pathList, shortestList, resultVar, nonQueryVars>>

findPathFromScratchData ==
    QueryStart("findPathFromScratchData", FromScratchDataRefusal(display))

findPathToPathList == QueryStart("findPathToPathList", ToPathListRefusal(display))

\* findPathFromScratchData, lines 1319-1332: findPath has returned.
findPathFromScratchDataReturn ==
    /\ pc = "done"
    /\ query.op = "findPathFromScratchData"
    /\ query.state = "searching"
    /\ IF Len(result) > 0
       THEN /\ shortestList' = Strings(result)
            /\ resultVar' = Join(result)
            /\ queryRet' = [kind |-> "path", text |-> Join(result)]
       ELSE /\ resultVar' = "no path"
            /\ queryRet' = [kind |-> "no path", text |-> ""]
            /\ UNCHANGED shortestList
    /\ query' = [query EXCEPT !.state = "returned"]
    /\ DropLocals
    /\ UNCHANGED <<nodes, links, lastOp, lastList, display, pathList, nonQueryVars>>

\* Faulty variant: the list Path is replaced by whatever findPath returned.
findPathToPathListReturn_Clears ==
    /\ pc = "done"
    /\ query.op = "findPathToPathList"
    /\ query.state = "searching"
    /\ pathList' = Strings(result)
    /\ queryRet' = [kind |-> "undefined", text |-> ""]
    /\ query' = [query EXCEPT !.state = "returned"]
    /\ DropLocals
    /\ UNCHANGED <<nodes, links, lastOp, lastList, display, shortestList, resultVar,
                   nonQueryVars>>

\* findPathToPathList, lines 1498-1507: findPath has returned.
findPathToPathListReturn ==
    /\ pc = "done"
    /\ query.op = "findPathToPathList"
    /\ query.state = "searching"
    /\ pathList' = IF Len(result) > 0 THEN Strings(result) ELSE pathList
    /\ queryRet' = [kind |-> "undefined", text |-> ""]
    /\ query' = [query EXCEPT !.state = "returned"]
    /\ DropLocals
    /\ UNCHANGED <<nodes, links, lastOp, lastList, display, shortestList, resultVar,
                   nonQueryVars>>

NextQuery ==
    \/ editLists
    \/ findPathFromScratchData
    \/ findPathToPathList
    \/ findPathIterate
    \/ findPathExhausted
    \/ findPathFromScratchDataReturn
    \/ findPathToPathListReturn

SpecQuery == Init /\ [][NextQuery]_vars

----------------------------------------------------------------------------
\* The wall clock advances between calls.
TickBy(deltas, limit) ==
    /\ \E d \in deltas :
          /\ now + d <= limit
          /\ now' = now + d
    /\ UNCHANGED <<sprite, mover, ret, call, movedAt, tallyVars, pathVars>>

Tick == TickBy(TickDeltas, MaxTime) /\ UNCHANGED callerVars

\* A caller starts the controller at the sprite's position.
StartMovementWith(speeds) ==
    /\ \E speed \in speeds :
          /\ mover' = StartMovement(mover, now, sprite.x, sprite.y, speed)
          /\ call' = [op |-> "startMovement", at |-> now, x |-> sprite.x, y |-> sprite.y,
                      speed |-> speed, timeScale |-> 0, scale |-> 0]
    /\ drift' = 0
    /\ worst' = 0
    /\ trues' = 0
    /\ UNCHANGED <<now, sprite, ret, movedAt, pathVars>>

startMovement == StartMovementWith(Speeds) /\ UNCHANGED callerVars

\* The tallies after an updateMovement call that turned the controller m into
\* r.mover and returned r.ret.
Tallied(m, r, tally) ==
    LET applied == r.mover.lastUpdateTime # m.lastUpdateTime
        residual == r.mover.accumulatedError
    IN  [drift |-> IF applied THEN tally.drift + residual ELSE tally.drift,
         worst |-> IF applied /\ Abs(residual) > tally.worst THEN Abs(residual)
                   ELSE tally.worst,
         trues |-> IF r.ret THEN tally.trues + 1 ELSE tally.trues]

Tallies == [drift |-> drift, worst |-> worst, trues |-> trues]

NoTallies == [drift |-> 0, worst |-> 0, trues |-> 0]

\* The tallies after an updatePathMovement call with the outcome r: they
\* start anew with every startMovement and with every new preciseMover.
PathTallied(r, tally) ==
    IF r.mover = NewMover /\ r.reached THEN NoTallies
    ELSE IF ~r.called THEN tally
    ELSE Tallied(r.startedMover, r.stepped, IF r.started THEN NoTallies ELSE tally)

\* A caller steps the controller; the tallies follow the applied steps.
UpdateMovementWith(targets, speeds, timeScales, scales) ==
    /\ \E target \in targets, speed \in speeds, timeScale \in timeScales,
          metersPerPixel \in scales :
          LET r == UpdateMovement(sprite, mover, now, target[1], target[2],
                                  speed, timeScale, metersPerPixel)
              tally == Tallied(mover, r, Tallies)
          IN  /\ sprite' = r.sprite
              /\ mover' = r.mover
              /\ ret' = r.ret
              /\ movedAt' = IF r.sprite # sprite THEN now ELSE movedAt
              /\ call' = [op |-> "updateMovement", at |-> now, x |-> target[1], y |-> target[2],
                          speed |-> speed, timeScale |-> timeScale,
                          scale |-> metersPerPixel]
              /\ drift' = tally.drift
              /\ worst' = tally.worst
              /\ trues' = tally.trues
    /\ UNCHANGED <<now, pathVars>>

updateMovement ==
    UpdateMovementWith(Targets, Speeds, TimeScales, Scales) /\ UNCHANGED callerVars

NextMover ==
    \/ Tick
    \/ startMovement
    \/ updateMovement

SpecMover == Init /\ [][NextMover]_vars

\* The controller stepped as often as the throttle allows, each call with a
\* target of its own (several scripts, or one script whose target moves).
\* metersPerPixel is 1.0, as for a speed given in pixels per second.
tickStep == TickBy(StepDeltas, MaxStepTime) /\ UNCHANGED callerVars

updateMovementPixels ==
    UpdateMovementWith(Targets, Speeds, TimeScales, { Milli }) /\ UNCHANGED callerVars

NextRetarget ==
    \/ tickStep
    \/ startMovement
    \/ updateMovementPixels

SpecRetarget == Init /\ [][NextRetarget]_vars

\* One run toward one target: the caller starts the controller once and then
\* calls updateMovement with the same arguments at the times it is scheduled.
tickLeg == TickBy(LegDeltas, MaxLegTime) /\ UNCHANGED callerVars

startLeg ==
    /\ leg = NoLeg
    /\ \E l \in Legs :
          /\ leg' = l
          /\ StartMovementWith({ l.speed })
    /\ UNCHANGED <<pathCtl, pathArg, sharesArg, pathRet, pathCall, restarted, blockVars>>

updateLeg ==
    /\ leg # NoLeg
    /\ UpdateMovementWith({ leg.target }, { leg.speed }, { leg.timeScale },
                          { leg.scale })
    /\ UNCHANGED callerVars

NextLeg ==
    \/ tickLeg
    \/ startLeg
    \/ updateLeg

SpecLeg == Init /\ [][NextLeg]_vars

\* The path controller and its caller.
tickPath == TickBy(PathDeltas, MaxPathTime) /\ UNCHANGED callerVars

startPathMovement ==
    /\ \E coords \in PathLists, speed \in PathSpeeds :
          LET r == StartPathMovement(pathCtl, coords, speed)
          IN  /\ pathCtl' = r.ctl
              /\ pathArg' = coords
              /\ sharesArg' = (r.ret /\ ~r.copied)
              /\ pathRet' = r.ret
              /\ pathCall' = [op |-> "startPathMovement", at |-> now, arg |-> coords]
    /\ restarted' = FALSE
    /\ UNCHANGED <<leg, blockVars, moveVars, tallyVars, pathVars>>

\* The caller empties the array it gave to startPathMovement.
callerClearsArray ==
    /\ pathArg # <<>>
    /\ pathArg' = <<>>
    /\ pathCtl' = IF sharesArg THEN [pathCtl EXCEPT !.pathNodes = <<>>] ELSE pathCtl
    /\ pathCall' = [op |-> "callerClearsArray", at |-> now, arg |-> <<>>]
    /\ UNCHANGED <<leg, sharesArg, pathRet, restarted, blockVars, moveVars, tallyVars,
                   pathVars>>

updatePathMovement ==
    /\ \E speed \in PathSpeeds :
          \E r \in { UpdatePathMovement(pathCtl, mover, sprite, now, speed, Milli, Milli) } :
          \E tally \in { PathTallied(r, Tallies) } :
              /\ pathCtl' = r.ctl
              /\ mover' = r.mover
              /\ sprite' = r.sprite
              /\ pathRet' = r.ret
              /\ restarted' = r.restarted
              /\ ret' = IF r.called THEN r.reached ELSE ret
              /\ movedAt' = IF r.sprite # sprite THEN now ELSE movedAt
              /\ call' = IF r.called
                         THEN [op |-> "updateMovement", at |-> now,
                               x |-> pathCtl.pathNodes[pathCtl.currentTargetIndex + 1][1],
                               y |-> pathCtl.pathNodes[pathCtl.currentTargetIndex + 1][2],
                               speed |-> speed, timeScale |-> Milli, scale |-> Milli]
                         ELSE call
              /\ drift' = tally.drift
              /\ worst' = tally.worst
              /\ trues' = tally.trues
              /\ pathCall' = [op |-> "updatePathMovement", at |-> now, arg |-> <<>>]
    /\ UNCHANGED <<now, leg, pathArg, sharesArg, blockVars, pathVars>>

resetPath ==
    /\ pathCtl' = ResetPath
    /\ mover' = NewMover
    /\ pathRet' = FALSE
    /\ pathCall' = [op |-> "reset", at |-> now, arg |-> <<>>]
    /\ restarted' = FALSE
    /\ drift' = 0
    /\ worst' = 0
    /\ trues' = 0
    /\ UNCHANGED <<now, sprite, ret, call, movedAt, leg, pathArg, sharesArg, blockVars,
                   pathVars>>

NextPath ==
    \/ tickPath
    \/ startPathMovement
    \/ callerClearsArray
    \/ updatePathMovement
    \/ resetPath

SpecPath == Init /\ [][NextPath]_vars

\* A caller that also writes currentTargetIndex: the controller's fields are
\* ordinary properties of the object.
IndexWrites == { -1, 3 }

tickMisuse == TickBy(PathDeltas, MaxMisuseTime) /\ UNCHANGED callerVars

callerSetsIndex ==
    /\ \E i \in IndexWrites : pathCtl' = [pathCtl EXCEPT !.currentTargetIndex = i]
    /\ pathCall' = [op |-> "callerSetsIndex", at |-> now, arg |-> <<>>]
    /\ UNCHANGED <<leg, pathArg, sharesArg, pathRet, restarted, blockVars, moveVars,
                   tallyVars, pathVars>>

\* this.pathNodes[this.currentTargetIndex] is undefined and the test of line
\* 217 does not return: the index is negative on an active controller.
TargetUndefined(ctl) == ctl.isMoving /\ ctl.currentTargetIndex < 0

\* updatePathMovement, lines 216-232, when currentTarget is undefined:
\* startMovement is called if the preciseMover is not Moving, then reading
\* currentTarget.x throws a TypeError and nothing is returned.
updatePathMovementThrows ==
    /\ TargetUndefined(pathCtl)
    /\ \E speed \in PathSpeeds :
          IF NeedsStart(mover)
          THEN /\ mover' = StartMovement(mover, now, sprite.x, sprite.y, speed)
               /\ drift' = 0
               /\ worst' = 0
               /\ trues' = 0
          ELSE UNCHANGED <<mover, tallyVars>>
    /\ restarted' = FALSE
    /\ pathCall' = [op |-> "updatePathMovement: TypeError", at |-> now, arg |-> <<>>]
    /\ UNCHANGED <<now, sprite, ret, call, movedAt, pathCtl, pathRet, leg, pathArg,
                   sharesArg, blockVars, pathVars>>

\* updatePathMovement when it returns.
updatePathMovementReturns ==
    /\ ~TargetUndefined(pathCtl)
    /\ updatePathMovement

NextMisuse ==
    \/ tickMisuse
    \/ startPathMovement
    \/ callerSetsIndex
    \/ updatePathMovementReturns
    \/ updatePathMovementThrows
    \/ resetPath

SpecMisuse == Init /\ [][NextMisuse]_vars

\* One run to its end: a caller starts one path, or one leg, and then calls
\* the update at least once at every instant of the clock it sees.
LiveDeltas == { 34 }

NothingStarted == pathCtl.pathNodes = <<>> /\ leg = NoLeg

startPathOnce ==
    /\ NothingStarted
    /\ startPathMovement

startLegOnce ==
    /\ NothingStarted
    /\ startLeg

updatePathLive ==
    /\ pathCtl.pathNodes # <<>>
    /\ updatePathMovement

\* The run is not at its end, and the caller has called at this instant.
CalledNow ==
    \/ /\ pathCtl.isMoving
       /\ pathCall.op = "updatePathMovement"
       /\ pathCall.at = now
    \/ /\ leg # NoLeg
       /\ mover.isMoving
       /\ call.op = "updateMovement"
       /\ call.at = now

tickLive ==
    /\ CalledNow
    /\ TickBy(LiveDeltas, MaxLiveTime)
    /\ UNCHANGED callerVars

NextLive ==
    \/ tickLive
    \/ startPathOnce
    \/ startLegOnce
    \/ updatePathLive
    \/ updateLeg

\* The caller's call of updatePathMovement at an instant at which it has not
\* called yet, by what the call leaves in pathCall.
CallsPath ==
    /\ pathCtl.pathNodes # <<>>
    /\ pathCall # [op |-> "updatePathMovement", at |-> now, arg |-> <<>>]
    /\ pathCall' = [op |-> "updatePathMovement", at |-> now, arg |-> <<>>]

\* The same for the caller of one leg and updateMovement.
CallsLeg ==
    /\ leg # NoLeg
    /\ call # [op |-> "updateMovement", at |-> now, x |-> leg.target[1],
               y |-> leg.target[2], speed |-> leg.speed,
               timeScale |-> leg.timeScale, scale |-> leg.scale]
    /\ call' = [op |-> "updateMovement", at |-> now, x |-> leg.target[1],
                y |-> leg.target[2], speed |-> leg.speed,
                timeScale |-> leg.timeScale, scale |-> leg.scale]

\* The clock advances and the caller keeps calling.
SpecLive ==
    /\ Init
    /\ [][NextLive]_vars
    /\ WF_vars(tickLive)
    /\ WF_pathCall(CallsPath)
    /\ WF_call(CallsLeg)

\* One invocation of a move block for the sprite id.
MoveBlockCall(op, id, target, speed, metersPerPixel) ==
    LET r == MoveBlock(preciseMovements, stage[id], id, now, target[1], target[2],
                       speed, Milli, metersPerPixel)
    IN  /\ preciseMovements' = r.reg
        /\ stage' = [stage EXCEPT ![id] = r.pos]
        /\ yielded' = r.yields
        /\ restarted' = r.restarted
        /\ blockCall' = [op |-> op, id |-> id, at |-> now, x |-> target[1],
                         y |-> target[2]]
        /\ UNCHANGED <<preciseMovement, leg, pathCtl, pathArg, sharesArg, pathRet,
                       pathCall, moveVars, tallyVars, pathVars>>

\* The blocks, run by scripts of the sprites ids.
PixelSpeedBlock(ids) ==
    \E id \in ids, target \in BlockTargets, speed \in BlockSpeeds :
        MoveBlockCall("moveToXYWithPixelSpeed", id, target, speed, Milli)

MeterSpeedBlock(ids) ==
    \E id \in ids, target \in BlockTargets, speed \in BlockSpeeds,
       metersPerPixel \in Scales :
        MoveBlockCall("moveToXYWithMeterSpeed", id, target, speed, metersPerPixel)

CoordinateSpeedBlock(ids) ==
    \E id \in ids, target \in BlockTargets, speed \in BlockSpeeds,
       metersPerPixel \in Scales :
        MoveBlockCall("moveToCoordinateWithSpeed", id, target, speed, metersPerPixel)

\* PROJECT_STOP_ALL
stopAll ==
    /\ preciseMovements' = EmptyMap
    /\ blockCall' = [op |-> "PROJECT_STOP_ALL", id |-> 0, at |-> now, x |-> 0, y |-> 0]
    /\ UNCHANGED <<stage, yielded, preciseMovement, restarted, leg, pathCtl, pathArg,
                   sharesArg, pathRet, pathCall, moveVars, tallyVars, pathVars>>

\* All callers of startMovement together: the path controller with its
\* sprite, and the move blocks in the scripts of one sprite.
moveToXYWithPixelSpeed == PixelSpeedBlock({ 1 })

moveToXYWithMeterSpeed == MeterSpeedBlock({ 1 })

moveToCoordinateWithSpeed == CoordinateSpeedBlock({ 1 })

tickCallers == TickBy(StepDeltas, MaxCallersTime) /\ UNCHANGED callerVars

NextCallers ==
    \/ tickCallers
    \/ startPathMovement
    \/ updatePathMovement
    \/ resetPath
    \/ moveToXYWithPixelSpeed
    \/ moveToXYWithMeterSpeed
    \/ moveToCoordinateWithSpeed
    \/ stopAll

SpecCallers == Init /\ [][NextCallers]_vars

\* moveStepWithSpeedTowardCoordinate: the block creates this.preciseMovement
\* when it is undefined, calls updateMovement on it, never startMovement, and
\* replaces it by a new controller when updateMovement returns true.  The
\* block does not call util.yield().
StepBlock(held, pos, t, targetX, targetY, speed, timeScale, metersPerPixel) ==
    LET movement == IF held = <<>> THEN NewMover ELSE held[1]
        r == UpdateMovement(pos, movement, t, targetX, targetY, speed, timeScale,
                            metersPerPixel)
    IN  [held |-> IF r.ret THEN <<NewMover>> ELSE <<r.mover>>,
         pos |-> r.sprite]

moveStepWithSpeedTowardCoordinate ==
    /\ \E target \in BlockTargets, speed \in BlockSpeeds, timeScale \in TimeScales,
          metersPerPixel \in Scales :
       \E r \in { StepBlock(preciseMovement, stage[1], now, target[1], target[2],
                            speed, timeScale, metersPerPixel) } :
          /\ preciseMovement' = r.held
          /\ stage' = [stage EXCEPT ![1] = r.pos]
          /\ blockCall' = [op |-> "moveStepWithSpeedTowardCoordinate", id |-> 1,
                           at |-> now, x |-> target[1], y |-> target[2]]
    /\ yielded' = FALSE
    /\ UNCHANGED <<preciseMovements, restarted, leg, pathCtl, pathArg, sharesArg,
                   pathRet, pathCall, moveVars, tallyVars, pathVars>>

\* The step block among the move blocks of its sprite.
tickStepBlock == TickBy(StepDeltas, MaxStepBlockTime) /\ UNCHANGED callerVars

NextStepBlock ==
    \/ tickStepBlock
    \/ moveStepWithSpeedTowardCoordinate
    \/ moveToCoordinateWithSpeed
    \/ stopAll

SpecStepBlock == Init /\ [][NextStepBlock]_vars

\* The move blocks in the scripts of two sprites, interleaved.
tickSprites == TickBy(StepDeltas, MaxSpritesTime) /\ UNCHANGED callerVars

pixelSpeedBlocks == PixelSpeedBlock(SpriteIds)

meterSpeedBlocks == MeterSpeedBlock(SpriteIds)

coordinateSpeedBlocks == CoordinateSpeedBlock(SpriteIds)

NextSprites ==
    \/ tickSprites
    \/ pixelSpeedBlocks
    \/ meterSpeedBlocks
    \/ coordinateSpeedBlocks
    \/ stopAll

SpecSprites == Init /\ [][NextSprites]_vars

----------------------------------------------------------------------------
\* The map centre and the projection functions.  None of the functions has a
\* throw statement or an operation that throws on a number, so each call
\* returns.
setCenter ==
    /\ \E c \in Centers : tileMap' = c
    /\ UNCHANGED <<converted, located>>
    /\ UNCHANGED <<nodes, links, searchVars, lastOp, lastList, queryVars, cacheVars,
                   actorVars>>

convertLatLngToScratchCall ==
    /\ \E latitude \in LatitudeArgs, longitude \in LongitudeArgs :
          converted' = [latitude |-> latitude, longitude |-> longitude,
                        center |-> tileMap,
                        point |-> convertLatLngToScratch(tileMap, latitude, longitude),
                        outcome |-> "returned"]
    /\ UNCHANGED <<tileMap, located>>
    /\ UNCHANGED <<nodes, links, searchVars, lastOp, lastList, queryVars, cacheVars,
                   actorVars>>

\* A call of one of the three inverse functions, on the point of the last
\* conversion or on a point of PlaneArgs.
Locate(op) ==
    /\ \E p \in PlaneArgs \cup { q \in { converted.point } : converted.outcome # "none" } :
          located' =
              [op |-> op, point |-> p, center |-> tileMap,
               latitude |->
                   IF op = "getScratchCoordinateLongitude" THEN NoValue
                   ELSE IF op = "getScratchCoordinateLatitude"
                   THEN getScratchCoordinateLatitude(tileMap, p.x, p.y)
                   ELSE getScratchCoordinateLocation(tileMap, p.x, p.y).latitude,
               longitude |->
                   IF op = "getScratchCoordinateLatitude" THEN NoValue
                   ELSE IF op = "getScratchCoordinateLongitude"
                   THEN getScratchCoordinateLongitude(tileMap, p.x, p.y)
                   ELSE getScratchCoordinateLocation(tileMap, p.x, p.y).longitude,
               outcome |-> "returned"]
    /\ UNCHANGED <<tileMap, converted>>
    /\ UNCHANGED <<nodes, links, searchVars, lastOp, lastList, queryVars, cacheVars,
                   actorVars>>

getScratchCoordinateLocationCall == Locate("getScratchCoordinateLocation")

getScratchCoordinateLatitudeCall == Locate("getScratchCoordinateLatitude")

getScratchCoordinateLongitudeCall == Locate("getScratchCoordinateLongitude")

NextProjection ==
    \/ setCenter
    \/ convertLatLngToScratchCall
    \/ getScratchCoordinateLocationCall
    \/ getScratchCoordinateLatitudeCall
    \/ getScratchCoordinateLongitudeCall

SpecProjection == Init /\ [][NextProjection]_vars

----------------------------------------------------------------------------

\* TileCache and its callers.  A getImage call runs up to its await, and on
\* from the settling of the request to its return, without another call in
\* between; while it waits, other calls run.
Ended(op, key, returned, fetches, evicted) ==
    [op |-> op, key |-> key, returned |-> returned, fetches |-> fetches,
     evicted |-> evicted]

\* pending without its i-th call.
Settled(i) == SubSeq(pending, 1, i - 1) \o SubSeq(pending, i + 1, Len(pending))

\* getImage, lines 15-29: the cached image if it is complete, else the
\* request to the primary server.
getImage ==
    /\ \E t \in Tiles :
       \E key \in { getTileKey(t[1], t[2], t[3]) } :
          IF CacheHas(cache, key) /\ CacheGet(cache, key).complete
          THEN /\ cacheCall' = Ended("getImage", key, CacheGet(cache, key), 0, <<>>)
               /\ recent' = Used(recent, key)
               /\ UNCHANGED pending
          ELSE /\ Len(pending) < MaxPending
               /\ pending' = Append(pending, [key |-> key, server |-> "primary"])
               /\ UNCHANGED <<recent, cacheCall>>
    /\ UNCHANGED <<cache, maxSize>>
    /\ UNCHANGED <<nodes, links, searchVars, lastOp, lastList, queryVars, projVars,
                   actorVars>>

\* getImage, lines 29-37 and 44-47: the request of a waiting call is
\* answered by onload; the image is set, the size managed, the image returned.
ImageLoaded(server) ==
    /\ \E i \in 1..Len(pending) :
          /\ pending[i].server = server
          /\ \E set \in { CacheSet(cache, pending[i].key, Image(server)) } :
                /\ cache' = manageCacheSize(set, maxSize)
                /\ recent' = Kept(Used(recent, pending[i].key),
                                  manageCacheSize(set, maxSize))
                /\ cacheCall' =
                       Ended("getImage", pending[i].key, Image(server),
                             IF server = "primary" THEN 1 ELSE 2,
                             SubSeq(CacheKeys(set), 1, Excess(set, maxSize)))
          /\ pending' = Settled(i)
    /\ UNCHANGED maxSize
    /\ UNCHANGED <<nodes, links, searchVars, lastOp, lastList, queryVars, projVars,
                   actorVars>>

primaryLoaded == ImageLoaded("primary")

fallbackLoaded == ImageLoaded("fallback")

\* getImage, lines 38-44: the primary request fails (onerror, or the
\* timeout), and the fallback server is asked.
primaryFailed ==
    /\ \E i \in 1..Len(pending) :
          /\ pending[i].server = "primary"
          /\ pending' = [pending EXCEPT ![i].server = "fallback"]
    /\ UNCHANGED <<cache, maxSize, recent, cacheCall>>
    /\ UNCHANGED <<nodes, links, searchVars, lastOp, lastList, queryVars, projVars,
                   actorVars>>

\* getImage, lines 48-51: the fallback request fails too; null is returned.
fallbackFailed ==
    /\ \E i \in 1..Len(pending) :
          /\ pending[i].server = "fallback"
          /\ cacheCall' = Ended("getImage", pending[i].key, NoImage, 2, <<>>)
          /\ pending' = Settled(i)
    /\ UNCHANGED <<cache, maxSize, recent>>
    /\ UNCHANGED <<nodes, links, searchVars, lastOp, lastList, queryVars, projVars,
                   actorVars>>

setMaxCacheSize ==
    /\ \E size \in CacheSizes :
          /\ maxSize' = size
          /\ cache' = manageCacheSize(cache, size)
          /\ recent' = Kept(recent, manageCacheSize(cache, size))
          /\ cacheCall' = Ended("setMaxCacheSize", "", NoImage, 0,
                                SubSeq(CacheKeys(cache), 1, Excess(cache, size)))
    /\ UNCHANGED pending
    /\ UNCHANGED <<nodes, links, searchVars, lastOp, lastList, queryVars, projVars,
                   actorVars>>

clearCache ==
    /\ cache' = <<>>
    /\ recent' = <<>>
    /\ cacheCall' = Ended("clearCache", "", NoImage, 0, CacheKeys(cache))
    /\ UNCHANGED <<maxSize, pending>>
    /\ UNCHANGED <<nodes, links, searchVars, lastOp, lastList, queryVars, projVars,
                   actorVars>>

NextCache ==
    \/ getImage
    \/ primaryLoaded
    \/ primaryFailed
    \/ fallbackLoaded
    \/ fallbackFailed
    \/ setMaxCacheSize
    \/ clearCache

SpecCache == Init /\ [][NextCache]_vars

----------------------------------------------------------------------------

\* The graph as the claims speak of it.
NodeIds == DOMAIN nodes

LinkEntries(u) == IF u \in DOMAIN links THEN links[u] ELSE <<>>

HasLink(u, v) == \E i \in 1..Len(LinkEntries(u)) : LinkEntries(u)[i].to = v

\* The least distance among the entries u -> v (Infinity: there is none).
LinkDist(u, v) ==
    LET ds == { LinkEntries(u)[i].distance :
                  i \in { j \in 1..Len(LinkEntries(u)) : LinkEntries(u)[j].to = v } }
    IN  IF ds = {} THEN Infinity
        ELSE CHOOSE d \in ds : \A e \in ds : d <= e

\* How many entries {to: v, distance: d} adjacency[u] holds.
EntryCount(u, v, d) ==
    Cardinality({ i \in 1..Len(LinkEntries(u)) :
                    LinkEntries(u)[i] = [to |-> v, distance |-> d] })

\* The nodes reachable from the nodes of S through links between nodes.
RECURSIVE ReachFrom(_)
ReachFrom(S) ==
    LET T == S \cup { v \in NodeIds : \E u \in S : HasLink(u, v) }
    IN  IF T = S THEN S ELSE ReachFrom(T)

Reachable(a, b) == a \in NodeIds /\ b \in ReachFrom({a})

\* The least total weight of a simple path from u to goal that avoids visited,
\* by exhaustive search (Infinity: there is none).
RECURSIVE MinCost(_, _, _)
MinCost(u, goal, visited) ==
    IF u = goal THEN 0
    ELSE LET costs == { Add(LinkDist(u, v), MinCost(v, goal, visited \cup {v})) :
                          v \in { w \in NodeIds \ visited : HasLink(u, w) } }
         IN  IF costs = {} THEN Infinity
             ELSE CHOOSE c \in costs : \A e \in costs : c <= e

RECURSIVE PathWeightFrom(_, _)
PathWeightFrom(path, i) ==
    IF i >= Len(path) THEN 0
    ELSE Add(LinkDist(path[i], path[i + 1]), PathWeightFrom(path, i + 1))

PathWeight(path) == PathWeightFrom(path, 1)

\* Every link between two nodes is non-negative and at least as long as the
\* straight line between them (d >= sqrt(n) stated as d * d >= n).
LinksCoverStraightLine ==
    \A u \in NodeIds : \A i \in 1..Len(LinkEntries(u)) :
        LET e == LinkEntries(u)[i]
        IN  e.to \in NodeIds =>
              /\ nodes[u].x # NaN /\ nodes[u].y # NaN
              /\ nodes[e.to].x # NaN /\ nodes[e.to].y # NaN
              /\ e.distance >= 0
              /\ e.distance * e.distance >=
                    (nodes[u].x - nodes[e.to].x) * (nodes[u].x - nodes[e.to].x)
                  + (nodes[u].y - nodes[e.to].y) * (nodes[u].y - nodes[e.to].y)

\* The search loop is running and no member of the open set has a score below
\* Infinity: the iteration selects nothing and repeats unchanged, for ever.
LoopsForEver ==
    /\ pc = "search"
    /\ openSet # <<>>
    /\ \A id \in Range(openSet) : fScore[id] = NaN \/ fScore[id] = Infinity

\* The triangle 1:(0,0), 2:(10,0), 3:(10,10) with links 10, 10 and 14.2.
TriangleGraph ==
    /\ nodes = (1 :> [id |-> 1, x |-> 0, y |-> 0]
             @@ 2 :> [id |-> 2, x |-> 50, y |-> 0]
             @@ 3 :> [id |-> 3, x |-> 50, y |-> 50])
    /\ DOMAIN links = {1, 2, 3}
    /\ \A u \in 1..3 : Len(links[u]) = 2
    /\ LinkDist(1, 2) = 50 /\ LinkDist(2, 3) = 50 /\ LinkDist(1, 3) = 71

\* C1: in a graph whose links are non-negative and at least the straight-line
\* distance of their endpoints, findPath(a, b) for b reachable from a returns
\* a path whose total link weight is the least weight of any a-to-b path; on
\* the triangle, findPath(1, 3) returns [1, 3].
C1_ShortestPath ==
    (LinksCoverStraightLine /\ Reachable(startId, goalId)) =>
        /\ ~LoopsForEver
        /\ pc = "done" =>
              /\ result # <<>>
              /\ PathWeight(result) = MinCost(startId, goalId, {startId})
              /\ (TriangleGraph /\ startId = 1 /\ goalId = 3) => result = <<1, 3>>

C1_Witness ==
    /\ pc = "done"
    /\ TriangleGraph
    /\ startId = 1
    /\ goalId = 3
    /\ result = <<1, 3>>
    /\ iters > 1

\* C2: findPath(a, a) for a node a returns [a], whatever the links are.
C2_SelfPath ==
    (pc = "done" /\ startId = goalId /\ startId \in NodeIds) => result = <<startId>>

C2_Witness ==
    /\ pc = "done"
    /\ startId = goalId
    /\ startId \in NodeIds
    /\ LinkEntries(startId) # <<>>
    /\ result = <<startId>>

\* C3: a findPath call with startId or goalId absent from the node map returns
\* the empty sequence at once (also when startId = goalId) and changes
\* neither the node map nor the adjacency map.
C3_MissingEndpoint ==
    [][(NotSearching /\ lastOp' = "findPath"
          /\ (startId' \notin DOMAIN nodes \/ goalId' \notin DOMAIN nodes))
       => (pc' = "done" /\ result' = <<>> /\ nodes' = nodes /\ links' = links)]_vars

C3_Witness ==
    /\ pc = "done"
    /\ startId = goalId
    /\ startId \notin NodeIds
    /\ startId \in DOMAIN links
    /\ NodeIds # {}
    /\ result = <<>>

\* C4: findPath(a, b) for distinct nodes a, b with b not reachable from a
\* comes to an empty open set and returns the empty sequence.
C4_DisconnectedReturnsEmpty ==
    (startId \in NodeIds /\ goalId \in NodeIds /\ startId # goalId
       /\ ~Reachable(startId, goalId)) =>
        /\ ~LoopsForEver
        /\ pc = "done" => (result = <<>> /\ openSet = <<>>)

\* C5: findPath terminates: every iteration of the search loop either returns
\* or removes a member of the open set.
C5_IterationReturnsOrRemoves ==
    [][(pc = "search" /\ iters' = iters + 1)
       => (pc' = "done" \/ current' \in Range(openSet))]_vars

\* C6: a non-empty result starts with startId, ends with goalId, follows
\* adjacency entries and holds only nodes of the node map; a link to an id
\* that is not a node is never expanded.
C6_PathWellFormed ==
    /\ Range(openSet) \subseteq NodeIds
    /\ DOMAIN cameFrom \subseteq NodeIds
    /\ (pc = "done" /\ result # <<>>) =>
          /\ result[1] = startId
          /\ result[Len(result)] = goalId
          /\ \A i \in 1..Len(result) : result[i] \in NodeIds
          /\ \A i \in 1..(Len(result) - 1) : HasLink(result[i], result[i + 1])

\* A path was returned although a shorter way leads over an id that is no node.
C6_Witness ==
    /\ pc = "done"
    /\ Len(result) = 2
    /\ \E v \in QueryIds \ NodeIds :
          /\ HasLink(startId, v)
          /\ HasLink(v, goalId)
          /\ LinkDist(startId, v) + LinkDist(v, goalId) < PathWeight(result)

\* The rows of a list that name id.
RowsOf(list, id) == { i \in 1..Len(list) : list[i][1] = id }

\* How many entries {to: v, distance: d} the rows of linkList put in adjacency[u].
RowCount(linkList, u, v, d) ==
    Cardinality({ i \in 1..Len(linkList) : linkList[i] = <<u, v, d>> })
  + Cardinality({ i \in 1..Len(linkList) : linkList[i] = <<v, u, d>> })

LinkEnds(linkList) ==
    { linkList[i][1] : i \in 1..Len(linkList) } \cup { linkList[i][2] : i \in 1..Len(linkList) }

LinkDistances(linkList) == { linkList[i][3] : i \in 1..Len(linkList) }

\* C7: after setLinks(linkList) each row (from, to, d) has an entry {to, d}
\* in adjacency[from] and an entry {from, d} in adjacency[to], and the
\* adjacency map holds no other entry; the adjacency map is always symmetric.
C7_SymmetricAdjacency ==
    /\ \A u \in DOMAIN links : \A i \in 1..Len(links[u]) :
          LET e == links[u][i]
          IN  EntryCount(e.to, u, e.distance) = EntryCount(u, e.to, e.distance)
    /\ lastOp = "setLinks" =>
          /\ DOMAIN links = LinkEnds(lastList)
          /\ \A u \in DOMAIN links : \A i \in 1..Len(links[u]) :
                \E r \in 1..Len(lastList) :
                    \/ lastList[r] = <<u, links[u][i].to, links[u][i].distance>>
                    \/ lastList[r] = <<links[u][i].to, u, links[u][i].distance>>
          /\ \A u \in LinkEnds(lastList), v \in LinkEnds(lastList),
                d \in LinkDistances(lastList) :
                EntryCount(u, v, d) = RowCount(lastList, u, v, d)

C7_Witness ==
    /\ lastOp = "setLinks"
    /\ Len(lastList) = 3
    /\ lastList[1] = lastList[3]
    /\ lastList[1] # lastList[2]
    /\ EntryCount(lastList[1][2], lastList[1][1], lastList[1][3]) = 2

\* C8: setNodes makes the node map exactly the rows of its list, the last row
\* of an id winning, and leaves the adjacency map alone; setLinks makes the
\* adjacency map anew from its list and leaves the node map alone.
C8_WholesaleReplace ==
    [][/\ lastOp' = "setNodes" =>
            /\ links' = links
            /\ DOMAIN nodes' = { lastList'[i][1] : i \in 1..Len(lastList') }
            /\ \A id \in DOMAIN nodes' :
                  LET last == CHOOSE i \in RowsOf(lastList', id) :
                                 \A j \in RowsOf(lastList', id) : j <= i
                  IN  nodes'[id] = [id |-> id, x |-> lastList'[last][2],
                                    y |-> lastList'[last][3]]
       /\ lastOp' = "setLinks" =>
            /\ nodes' = nodes
            /\ DOMAIN links' = LinkEnds(lastList')
            /\ \A u \in DOMAIN links' : Len(links'[u]) =
                  Cardinality({ i \in 1..Len(lastList') : lastList'[i][1] = u })
                + Cardinality({ i \in 1..Len(lastList') : lastList'[i][2] = u })
      ]_vars

C8_Witness ==
    /\ lastOp = "setNodes"
    /\ Len(lastList) = 3
    /\ lastList[1][1] = 2
    /\ lastList[3][1] = 2
    /\ nodes[2].x = lastList[3][2]
    /\ nodes[2].x # lastList[1][2]
    /\ 3 \notin NodeIds
    /\ 3 \in DOMAIN links

----------------------------------------------------------------------------
\* A step of updateMovement (the clock stands still during a call).
UpdateCall == call'.op = "updateMovement" /\ now' = now

\* C9: updateMovement on an Idle controller returns false and changes neither
\* the sprite's position nor a field of the controller.
C9_IdleNoOp ==
    [][(UpdateCall /\ ~mover.isMoving)
       => (ret' = FALSE /\ sprite' = sprite /\ mover' = mover)]_vars

C9_Witness ==
    /\ call.op = "updateMovement"
    /\ call.at = now
    /\ ~mover.isMoving
    /\ ret = FALSE
    /\ mover.targetSpeed > 0
    /\ (now - mover.lastUpdateTime) * 100 >= UpdateIntervalCenti
    /\ <<sprite.x, sprite.y>> # <<call.x, call.y>>

\* C10: updateMovement on a Moving controller less than 33.33 ms after
\* lastUpdateTime returns false and changes neither the sprite's position nor
\* a field of the controller, also with the sprite on the target; two calls
\* that move the sprite are never less than 33.33 ms apart.
C10_Throttle ==
    [][UpdateCall =>
        /\ (mover.isMoving /\ (now - mover.lastUpdateTime) * 100 < UpdateIntervalCenti)
              => (ret' = FALSE /\ sprite' = sprite /\ mover' = mover)
        /\ (sprite' # sprite /\ movedAt >= 0)
              => (now - movedAt) * 100 >= UpdateIntervalCenti
      ]_vars

C10_Witness ==
    /\ call.op = "updateMovement"
    /\ call.at = now
    /\ mover.isMoving
    /\ movedAt >= 0
    /\ now > mover.lastUpdateTime
    /\ (now - mover.lastUpdateTime) * 100 < UpdateIntervalCenti
    /\ ret = FALSE
    /\ <<sprite.x, sprite.y>> = <<call.x, call.y>>

\* The distance in pixels between two positions, and from a position to the
\* target of a call.
Dist(p, q) == Sqrt((q.x - p.x) * (q.x - p.x) + (q.y - p.y) * (q.y - p.y))

CallTarget(c) == [x |-> c.x, y |-> c.y]

\* The call c, made now on the controller and sprite of the current state,
\* comes past the throttle and finds the sprite within 0.01 m of its target.
ArrivalCase(c) ==
    /\ mover.isMoving
    /\ (now - mover.lastUpdateTime) * 100 >= UpdateIntervalCenti
    /\ Mul(Dist(sprite, CallTarget(c)), c.scale) < ArrivalMilli

\* C11: updateMovement returns true only in a call made while Moving, past
\* the throttle, with remaining distance times metersPerPixel below 0.01; in
\* exactly that case the sprite is set onto the target and the controller
\* becomes Idle.  In every other call it returns false and the controller
\* keeps its Idle/Moving state.
C11_ArrivalOnly ==
    [][UpdateCall =>
        /\ ret' = ArrivalCase(call')
        /\ ArrivalCase(call')
              => (sprite' = CallTarget(call') /\ ~mover'.isMoving)
        /\ ~ArrivalCase(call') => (mover'.isMoving = mover.isMoving)
      ]_vars

C11_Witness ==
    /\ call.op = "updateMovement"
    /\ call.at = now
    /\ ret = TRUE
    /\ ~mover.isMoving
    /\ sprite = CallTarget(call)
    /\ movedAt >= 0
    /\ movedAt < now

\* The step distance the call c asks calculateNextTarget for: the distance for
\* the time since lastUpdateTime, and the carried error.
IntendedDistance(c) ==
    Div(Mul(Mul(c.speed, c.timeScale), now - mover.lastUpdateTime), c.scale)

StepDistance(c) == IntendedDistance(c) + mover.accumulatedError

\* The call c, made now, applies a step.
StepCase(c) ==
    /\ mover.isMoving
    /\ (now - mover.lastUpdateTime) * 100 >= UpdateIntervalCenti
    /\ ~ArrivalCase(c)

\* C12: with positive speed, timeScale and metersPerPixel a step never
\* overshoots and never moves away from its target, whatever the targets of
\* the earlier calls were: the sprite ends between its position before the
\* step and the target (up to the rounding of the coordinates), and on the
\* target when the step distance is at least the remaining distance.
C12_NoOvershoot ==
    [][(UpdateCall /\ StepCase(call')) =>
        LET target == CallTarget(call')
            remaining == Dist(sprite, target)
        IN  /\ Dist(sprite', target) <= remaining
            /\ Dist(sprite, sprite') + Dist(sprite', target) <= remaining + 2
            /\ StepDistance(call') >= remaining => sprite' = target
      ]_vars

\* C13 as stated: after each applied step accumulatedError is the intended
\* distance (without the carried error) minus the distance moved, and a step
\* that follows a shortfall moves further than its intended distance by the
\* carried amount.
C13_ShortfallMovedNext ==
    [][(UpdateCall /\ StepCase(call')) =>
        /\ mover'.accumulatedError = IntendedDistance(call') - Dist(sprite, sprite')
        /\ mover.accumulatedError > 0
              => Abs(Dist(sprite, sprite') - StepDistance(call')) <= 2
      ]_vars

\* C13, amended: after each applied step accumulatedError is the intended
\* distance minus the distance moved; a step that follows a shortfall asks for
\* its intended distance plus the carried amount, moves that far (up to the
\* rounding of the coordinates) when that is less than the remaining
\* distance, and lands on its target otherwise.
C13_ShortfallCarried ==
    [][(UpdateCall /\ StepCase(call')) =>
        /\ mover'.accumulatedError = IntendedDistance(call') - Dist(sprite, sprite')
        /\ mover.accumulatedError > 0 =>
              IF StepDistance(call') < Dist(sprite, CallTarget(call'))
              THEN Abs(Dist(sprite, sprite') - StepDistance(call')) <= 2
              ELSE sprite' = CallTarget(call')
      ]_vars

\* A step that followed a shortfall and moved further than intended.
C13_Witness ==
    /\ call.op = "updateMovement"
    /\ call.at = now
    /\ movedAt = now
    /\ mover.isMoving
    /\ mover.lastUpdateTime = now
    /\ mover.accumulatedError < 0
    /\ drift = 0
    /\ worst > 2
    /\ sprite # CallTarget(call)

\* C14: over the applied steps of one controller since startMovement, the
\* total distance moved differs from the total intended distance by no more
\* than the residual (intended minus moved) of a single one of these steps,
\* up to the 0.01 tolerance; and a correction is not taken back: a step that
\* is not clamped onto its target never moves less than its intended
\* distance, up to the same tolerance.
C14_DriftWithinOneResidual ==
    [][(UpdateCall /\ StepCase(call')) =>
        /\ Abs(drift') <= worst' + ArrivalMilli
        /\ sprite' # CallTarget(call')
              => Dist(sprite, sprite') >= IntendedDistance(call') - ArrivalMilli
      ]_vars

\* The runs of SpecLeg start where the sprite is created.
Origin == [x |-> 0, y |-> 0]

LegTarget == [x |-> leg.target[1], y |-> leg.target[2]]

\* Where one updateMovement call puts the sprite that is made the given time
\* after startMovement, with the arguments of the run.
OneCall(elapsed) ==
    calculateNextTarget(Origin.x, Origin.y, LegTarget.x, LegTarget.y,
        Div(Mul(Mul(leg.speed, leg.timeScale), elapsed), leg.scale))

\* C16: for a fixed target, speed, timeScale and scale the sprite's position
\* depends only on the time of the last applied step, not on how the time
\* was divided into calls: it is, within the 0.01 tolerance, where one call
\* with the whole elapsed time puts it.
C16_PositionByElapsedTime ==
    leg # NoLeg
        => Dist(sprite, OneCall(mover.lastUpdateTime - mover.startTime)) < ArrivalMilli

\* Applied steps 99 ms after the start and a throttled call, short of the target.
C16_Witness ==
    /\ leg # NoLeg
    /\ mover.isMoving
    /\ mover.lastUpdateTime - mover.startTime >= 3 * 33
    /\ sprite # LegTarget
    /\ movedAt = mover.lastUpdateTime
    /\ call.op = "updateMovement"
    /\ call.at = now
    /\ now > mover.lastUpdateTime

\* The runs C15 speaks of (timeScale 1, metersPerPixel 1), and the moment
\* D/v seconds after startMovement, in milliseconds.
UnitLeg == leg # NoLeg /\ leg.timeScale = Milli /\ leg.scale = Milli

LegEnd == mover.startTime + (Dist(Origin, LegTarget) * Milli) \div leg.speed

\* C15 as stated: once the calls of such a run have reached the moment D/v
\* seconds after the start, the sprite is within 0.01 of the target and
\* updateMovement has returned true exactly once.
C15_ArrivedAtDOverV ==
    (UnitLeg /\ call.op = "updateMovement" /\ call.at = now /\ now = LegEnd)
        => (Dist(sprite, LegTarget) < ArrivalMilli /\ trues = 1)

\* C15, amended: the sprite is within 0.01 of the target once a step has been
\* applied D/v seconds after the start or later; updateMovement returns true
\* at most once, only after that moment and at least 33.33 ms after the last
\* applied step, and when it has the controller is Idle with the sprite on
\* the target.
C15_ArrivalAfterLanding ==
    UnitLeg =>
        /\ mover.lastUpdateTime >= LegEnd => Dist(sprite, LegTarget) < ArrivalMilli
        /\ trues <= 1
        /\ trues = 1 <=> ~mover.isMoving
        /\ trues = 1 =>
              /\ sprite = LegTarget
              /\ now > LegEnd
              /\ (now - mover.lastUpdateTime) * 100 >= UpdateIntervalCenti

\* A step applied exactly D/v seconds after the start, and true returned by a
\* later call.
C15_Witness ==
    /\ UnitLeg
    /\ mover.lastUpdateTime = LegEnd
    /\ call.op = "updateMovement"
    /\ call.at = now
    /\ ret = TRUE
    /\ trues = 1

\* A step of the model that is a startMovement call.
StartCall == call'.op = "startMovement" /\ now' = now

\* C17: startMovement(x, y, speed) puts the controller in Moving and sets
\* startTime and lastUpdateTime to the current time and accumulatedError to
\* 0, whatever the state before was (Idle or Moving, with or without a
\* carried error).
C17_StartResets ==
    [][StartCall =>
        /\ mover'.isMoving
        /\ mover'.startTime = now
        /\ mover'.lastUpdateTime = now
        /\ mover'.accumulatedError = 0
        /\ mover'.targetSpeed = call'.speed
        /\ mover'.lastPosition = CallTarget(call')
        /\ sprite' = sprite
      ]_vars

\* A start after a step of this controller that left a carried error.
C17_Witness ==
    /\ call.op = "startMovement"
    /\ call.at = now
    /\ now > 0
    /\ movedAt = now
    /\ mover.isMoving
    /\ mover.startTime = now
    /\ mover.accumulatedError = 0
    /\ sprite # Origin
    /\ sprite \notin { [x |-> t[1], y |-> t[2]] : t \in Targets }

\* Steps of the model that are calls of the path controller, and the step in
\* which the caller changes its array.
StartPathCall == pathCall'.op = "startPathMovement" /\ pathCall'.at = now /\ now' = now

UpdatePathCall == pathCall'.op = "updatePathMovement" /\ pathCall'.at = now /\ now' = now

ArrayChange == pathCall'.op = "callerClearsArray" /\ pathArg' # pathArg

\* The path is active; its current waypoint.
ActivePath ==
    pathCtl.isMoving /\ pathCtl.currentTargetIndex < Len(pathCtl.pathNodes)

Waypoint(ctl, i) == [x |-> ctl.pathNodes[i + 1][1], y |-> ctl.pathNodes[i + 1][2]]

\* C19: startPathMovement with an empty sequence returns false and changes no
\* field of the path controller or of its leg controller; with a non-empty
\* sequence it returns true, stores the sequence, sets currentTargetIndex to
\* 0 and isMoving to true; a later change of the caller's array does not
\* change pathNodes.
C19_StartPath ==
    [][/\ StartPathCall =>
             IF Len(pathCall'.arg) = 0
             THEN pathRet' = FALSE /\ pathCtl' = pathCtl /\ mover' = mover
             ELSE /\ pathRet' = TRUE
                  /\ pathCtl' = [isMoving |-> TRUE, pathNodes |-> pathCall'.arg,
                                 currentTargetIndex |-> 0]
       /\ ArrayChange => pathCtl' = pathCtl
      ]_vars

\* An empty start on an active path whose second leg is Moving; the caller's
\* array is empty, pathNodes is not.
C19_Witness ==
    /\ pathCall = [op |-> "startPathMovement", at |-> now, arg |-> <<>>]
    /\ pathRet = FALSE
    /\ pathArg = <<>>
    /\ pathCtl.isMoving
    /\ pathCtl.currentTargetIndex = 1
    /\ Len(pathCtl.pathNodes) = 2
    /\ mover.isMoving

\* C20: updatePathMovement on an active path returns true only in the call
\* in which the leg controller reports arrival at the last waypoint;
\* currentTargetIndex increases only by exactly 1 and only in an
\* updatePathMovement call in which the leg controller reported arrival and
\* the sprite was set onto pathNodes[currentTargetIndex].
C20_InOrder ==
    [][/\ (UpdatePathCall /\ ActivePath /\ pathRet') =>
             /\ ret' = TRUE
             /\ call'.at = now
             /\ pathCtl.currentTargetIndex = Len(pathCtl.pathNodes) - 1
             /\ sprite' = Waypoint(pathCtl, pathCtl.currentTargetIndex)
       /\ pathCtl'.currentTargetIndex > pathCtl.currentTargetIndex =>
             /\ UpdatePathCall
             /\ ActivePath
             /\ pathCtl'.currentTargetIndex = pathCtl.currentTargetIndex + 1
             /\ pathCtl'.pathNodes = pathCtl.pathNodes
             /\ ret' = TRUE
             /\ call'.at = now
             /\ sprite' = Waypoint(pathCtl, pathCtl.currentTargetIndex)
      ]_vars

\* Both legs of a path done, in order.
C20_Witness ==
    /\ pathCall = [op |-> "updatePathMovement", at |-> now, arg |-> <<>>]
    /\ pathRet = TRUE
    /\ ret = TRUE
    /\ ~pathCtl.isMoving
    /\ pathCtl.pathNodes = <<PathA, PathB>>
    /\ pathCtl.currentTargetIndex = 2
    /\ sprite = [x |-> PathB[1], y |-> PathB[2]]

\* C18: in every sequence of block invocations and path-controller calls,
\* no caller (updatePathMovement, moveToXYWithPixelSpeed,
\* moveToXYWithMeterSpeed, moveToCoordinateWithSpeed) calls startMovement on
\* a controller that is Moving.
C18_NoRestart == ~restarted

\* A block and updatePathMovement, both called 34 ms after they started
\* their controllers, which are still Moving and keep their start time.
C18_Witness ==
    /\ blockCall.at = now
    /\ blockCall.op \in { "moveToXYWithPixelSpeed", "moveToXYWithMeterSpeed",
                           "moveToCoordinateWithSpeed" }
    /\ yielded
    /\ 1 \in DOMAIN preciseMovements
    /\ preciseMovements[1].isMoving
    /\ preciseMovements[1].startTime < now
    /\ preciseMovements[1].lastUpdateTime = now
    /\ pathCall.op = "updatePathMovement"
    /\ pathCall.at = now
    /\ mover.isMoving
    /\ mover.startTime < now
    /\ mover.lastUpdateTime = now
    /\ ~restarted

\* C21: currentTargetIndex stays between 0 and the length of pathNodes, and
\* updatePathMovement returns true exactly when, after the call,
\* currentTargetIndex equals the length of pathNodes.
C21_IndexInRange ==
    /\ 0 <= pathCtl.currentTargetIndex
    /\ pathCtl.currentTargetIndex <= Len(pathCtl.pathNodes)
    /\ pathCall.op = "updatePathMovement" =>
          (pathRet <=> pathCtl.currentTargetIndex = Len(pathCtl.pathNodes))

\* updatePathMovement returned false after the first of two waypoints was
\* reached: the cursor is inside the path.
C21_Witness ==
    /\ pathCall = [op |-> "updatePathMovement", at |-> now, arg |-> <<>>]
    /\ pathRet = FALSE
    /\ ret = TRUE
    /\ pathCtl.currentTargetIndex = 1
    /\ Len(pathCtl.pathNodes) = 2

\* The next updatePathMovement call is the first one of a leg: the path was
\* started and not stepped yet, or the last step reached a waypoint that is
\* not the last one.
FirstCallOfLeg ==
    /\ ActivePath
    /\ \/ pathCall.op = "startPathMovement" /\ pathRet
       \/ pathCall.op = "updatePathMovement" /\ mover = NewMover

\* C22: the first updatePathMovement call of every leg calls startMovement at
\* the sprite's position, so that the leg begins with accumulatedError = 0
\* and startTime and lastUpdateTime at the time of that call, whatever
\* startPathMovement, updatePathMovement and reset calls came before.
C22_CleanLegStart ==
    [][(FirstCallOfLeg /\ UpdatePathCall) =>
          /\ mover'.isMoving
          /\ mover'.startTime = now
          /\ mover'.lastUpdateTime = now
          /\ mover'.accumulatedError = 0
          /\ mover'.lastPosition = sprite
      ]_vars

\* C23: updatePathMovement on a path controller that is inactive, or whose
\* currentTargetIndex is not below the length of pathNodes, returns true and
\* changes neither the sprite's position nor a field of the path controller
\* or of its leg controller.
C23_InactiveStep ==
    [][(UpdatePathCall /\ ~ActivePath) =>
          /\ pathRet' = TRUE
          /\ sprite' = sprite
          /\ pathCtl' = pathCtl
          /\ mover' = mover
      ]_vars

\* A completed two-waypoint path stepped again, later than the call that
\* completed it.
C23_Witness ==
    /\ pathCall = [op |-> "updatePathMovement", at |-> now, arg |-> <<>>]
    /\ pathRet = TRUE
    /\ ~pathCtl.isMoving
    /\ pathCtl.currentTargetIndex = 2
    /\ pathCtl.pathNodes = << <<0, 0>>, PathA >>
    /\ call.at < now
    /\ sprite = [x |-> PathA[1], y |-> PathA[2]]

ResetCall == pathCall'.op = "reset" /\ pathCall'.at = now /\ now' = now

\* The path controller as reset leaves it.
AfterReset == pathCtl = NewPathCtl /\ mover = NewMover

\* C24: reset, in whatever state it is called, leaves isMoving false,
\* pathNodes empty, currentTargetIndex 0 and an idle leg controller; from
\* then on only a startPathMovement that returns true changes that, and
\* every updatePathMovement before it returns true and does not move the
\* sprite.
C24_Reset ==
    [][/\ ResetCall => (pathCtl' = NewPathCtl /\ mover' = NewMover /\ sprite' = sprite)
       /\ AfterReset =>
             \/ StartPathCall /\ pathRet'
             \/ /\ pathCtl' = NewPathCtl
                /\ mover' = NewMover
                /\ sprite' = sprite
                /\ UpdatePathCall => pathRet' = TRUE
      ]_vars

\* A path reset after the first step of its leg, then stepped: the sprite
\* stays where the reset found it.
C24_Witness ==
    /\ pathCall = [op |-> "updatePathMovement", at |-> now, arg |-> <<>>]
    /\ pathRet = TRUE
    /\ AfterReset
    /\ sprite = [x |-> 34, y |-> 0]
    /\ movedAt < now

\* A step that invokes the block op.
QueryCall(op) == pc = "idle" /\ query'.op = op

LengthsDiffer(d) == ~ListsMissing(d) /\ (NodeLengthsDiffer(d) \/ LinkLengthsDiffer(d))

\* C25: findPathFromScratchData and findPathToPathList, invoked when the
\* three node lists differ in length or the two link lists differ in length,
\* return an error that tells the mismatch, set no graph and run no search.
C25_MismatchRefused ==
    [][\A op \in { "findPathFromScratchData", "findPathToPathList" } :
          (QueryCall(op) /\ LengthsDiffer(display)) =>
              /\ queryRet'.kind \in { "error: node lengths differ",
                                      "error: link lengths differ" }
              /\ nodes' = nodes
              /\ links' = links
              /\ pc' = "idle"
      ]_vars

MoveBlocks ==
    { "moveToXYWithPixelSpeed", "moveToXYWithMeterSpeed", "moveToCoordinateWithSpeed" }

\* A step that invokes a move block in a script of the sprite id.
BlockCallOf(id) ==
    blockCall'.op \in MoveBlocks /\ blockCall'.id = id /\ blockCall'.at = now /\ now' = now

\* The controller registered for the sprite id (<<>>: none).
Registered(reg, id) == IF id \in DOMAIN reg THEN <<reg[id]>> ELSE <<>>

\* The registry with the controller of the sprite id alone.
Alone(reg, id) == [k \in (DOMAIN reg) \cap {id} |-> reg[k]]

\* C26: a move-block invocation for a sprite A leaves the controller and the
\* position of every other sprite B as they were, and what it does to A's
\* controller and position depends on nothing but them and its arguments.
C26_OwnControllerOnly ==
    [][\A a \in SpriteIds :
          BlockCallOf(a) =>
              /\ \A b \in SpriteIds \ {a} :
                    /\ stage'[b] = stage[b]
                    /\ Registered(preciseMovements', b) = Registered(preciseMovements, b)
              /\ \E speed \in BlockSpeeds, metersPerPixel \in Scales :
                 \E r \in { MoveBlock(Alone(preciseMovements, a), stage[a], a, now,
                                      blockCall'.x, blockCall'.y, speed, Milli,
                                      metersPerPixel) } :
                    /\ stage'[a] = r.pos
                    /\ Registered(preciseMovements', a) = Registered(r.reg, a)
      ]_vars

\* Sprite 1's block has just completed and deleted its controller while
\* sprite 2, moved by a step of its own block, keeps its controller.
C26_Witness ==
    /\ blockCall.op \in MoveBlocks
    /\ blockCall.id = 1
    /\ blockCall.at = now
    /\ ~yielded
    /\ 1 \notin DOMAIN preciseMovements
    /\ 2 \in DOMAIN preciseMovements
    /\ preciseMovements[2].isMoving
    /\ stage[1] = [x |-> 68, y |-> 0]
    /\ preciseMovements[2].lastUpdateTime > preciseMovements[2].startTime
    /\ stage[2] = [x |-> 68, y |-> 0]

----------------------------------------------------------------------------
\* What the projection claims speak of.
LatitudeViolation(a) == ~IsNum(a) \/ a.v < -90000000 \/ a.v > 90000000

LongitudeViolation(a) == ~IsNum(a) \/ a.v < -180000000 \/ a.v > 180000000

\* The last inverse call was given a NaN in a coordinate it uses.
PlaneViolation ==
    \/ located.op # "getScratchCoordinateLongitude" /\ ~IsNum(located.point.y)
    \/ located.op # "getScratchCoordinateLatitude" /\ ~IsNum(located.point.x)

\* C27: a projection function that is given a domain violation (a NaN, or a
\* latitude outside [-90, 90] or a longitude outside [-180, 180]) fails with
\* an InvalidCoordinate error: it does not return a value.
C27_InvalidCoordinate ==
    /\ converted.outcome # "none"
           /\ (LatitudeViolation(converted.latitude)
                  \/ LongitudeViolation(converted.longitude))
       => converted.outcome = "InvalidCoordinate"
    /\ located.outcome # "none" /\ PlaneViolation
       => located.outcome = "InvalidCoordinate"

\* The last getScratchCoordinateLocation call was given the point and the
\* centre of the last conversion, and that conversion was of a latitude in
\* (-85, 85) and of a number as longitude.
RoundTrip ==
    /\ converted.outcome = "returned"
    /\ IsNum(converted.latitude)
    /\ converted.latitude.v > -85000000
    /\ converted.latitude.v < 85000000
    /\ IsNum(converted.longitude)
    /\ located.op = "getScratchCoordinateLocation"
    /\ located.point = converted.point
    /\ located.center = converted.center

\* Within 1e-4 degrees.
Near(a, b) == IsNum(a) /\ IsNum(b) /\ Abs(a.v - b.v) <= 100

----------------------------------------------------------------------------
\* A step that is an updatePathMovement call, returning or throwing.
UpdatePathCallOrThrow ==
    /\ pathCall'.op \in { "updatePathMovement", "updatePathMovement: TypeError" }
    /\ pathCall'.at = now
    /\ now' = now

IndexOutOfRange(ctl) ==
    ctl.currentTargetIndex > Len(ctl.pathNodes) \/ ctl.currentTargetIndex < 0

\* C29: an updatePathMovement call on a controller whose currentTargetIndex
\* is greater than the length of pathNodes, or negative, throws; it does not
\* return.
C29_FailsLoudly ==
    [][UpdatePathCallOrThrow /\ IndexOutOfRange(pathCtl)
           => pathCall'.op = "updatePathMovement: TypeError"]_vars

----------------------------------------------------------------------------
\* A step in which a getImage call sets the image it fetched and the size
\* management deletes entries.
EvictingInsertion ==
    /\ Len(pending') < Len(pending)
    /\ cacheCall'.op = "getImage"
    /\ cacheCall'.returned # NoImage
    /\ cacheCall'.evicted # <<>>

Position(seq, k) == CHOOSE i \in 1..Len(seq) : seq[i] = k

\* C30: when an insertion makes the cache exceed maxSize, every entry that
\* is deleted was last used (inserted, or returned from the cache by
\* getImage) before every entry that is kept.
C30_LeastRecentlyUsed ==
    [][EvictingInsertion
           => \A i \in 1..Len(cacheCall'.evicted), j \in 1..Len(cache') :
                  Position(Used(recent, cacheCall'.key), cacheCall'.evicted[i])
                      < Position(Used(recent, cacheCall'.key), cache'[j].key)]_vars

----------------------------------------------------------------------------
\* The steps of getImage calls, told apart by what they do to the waiting
\* calls.  In all of them key is the tile key of the call.
RequestStarts == Len(pending') = Len(pending) + 1

RequestRetried == Len(pending') = Len(pending) /\ pending' # pending

CallEnds == Len(pending') < Len(pending)

CacheHit ==
    /\ pending' = pending
    /\ cacheCall'.op = "getImage"
    /\ <<cacheCall, recent>>' # <<cacheCall, recent>>

\* The call that ended was the i-th waiting call, asking the given server.
EndedCall(i, server) ==
    /\ pending[i].key = cacheCall'.key
    /\ pending[i].server = server
    /\ pending' = SubSeq(pending, 1, i - 1) \o SubSeq(pending, i + 1, Len(pending))

\* What getImage does, step by step; atOnce tells whether the image that
\* was fetched may be missing from the cache when the call returns.
GetImageContract(atOnce) ==
    /\ CacheHit =>
          /\ CacheHas(cache, cacheCall'.key)
          /\ cacheCall'.returned = CacheGet(cache, cacheCall'.key)
          /\ cacheCall'.returned.complete
          /\ cacheCall'.fetches = 0
          /\ cache' = cache
    /\ RequestStarts =>
          /\ \E key \in TileKeys :
                /\ pending' = Append(pending, [key |-> key, server |-> "primary"])
                /\ ~(CacheHas(cache, key) /\ CacheGet(cache, key).complete)
          /\ cache' = cache
    /\ RequestRetried =>
          /\ \E i \in 1..Len(pending) :
                /\ pending[i].server = "primary"
                /\ pending' = [pending EXCEPT ![i].server = "fallback"]
          /\ cache' = cache
    /\ CallEnds /\ cacheCall'.returned # NoImage =>
          /\ cacheCall'.op = "getImage"
          /\ \E i \in 1..Len(pending) : EndedCall(i, cacheCall'.returned.server)
          /\ cacheCall'.fetches = IF cacheCall'.returned.server = "primary" THEN 1 ELSE 2
          /\ \/ /\ CacheHas(cache', cacheCall'.key)
                /\ CacheGet(cache', cacheCall'.key) = cacheCall'.returned
             \/ /\ atOnce
                /\ maxSize = 0
                /\ cache' = <<>>
    /\ CallEnds /\ cacheCall'.returned = NoImage =>
          /\ cacheCall'.op = "getImage"
          /\ \E i \in 1..Len(pending) : EndedCall(i, "fallback")
          /\ cacheCall'.fetches = 2
          /\ cache' = cache

\* C31: getImage returns a cached complete image without a request; else it
\* asks the primary server, and the fallback server only after the primary
\* request failed; the image of the request that succeeded is in the cache
\* under the tile key when the call returns; null is returned, and the cache
\* left as it was, only when both requests failed.
C31_GetImage == [][GetImageContract(FALSE)]_vars

\* C31 as amended: with maxSize 0 the image that was fetched is set and
\* deleted again by the size management before the call returns it.
C31_GetImageAmended == [][GetImageContract(TRUE)]_vars

\* A call that was answered by the fallback server has returned, and its
\* image is the second entry of a cache of at most two.
C31_Witness ==
    /\ cacheCall.op = "getImage"
    /\ cacheCall.returned = Image("fallback")
    /\ cacheCall.fetches = 2
    /\ maxSize = 2
    /\ Len(cache) = 2
    /\ cache[2] = [key |-> cacheCall.key, image |-> Image("fallback")]
    /\ pending = <<>>

----------------------------------------------------------------------------
\* C32: whatever the interleaving of getImage calls and their requests with
\* setMaxCacheSize and clearCache, the cache holds at most maxSize entries
\* whenever a call has run up to its await or to its return.
C32_SizeBounded == Len(cache) <= maxSize

\* An insertion has just deleted the oldest entry of a full cache of two,
\* while another call still waits for the fallback server.
C32_Witness ==
    /\ maxSize = 2
    /\ Len(cache) = 2
    /\ cacheCall.op = "getImage"
    /\ Len(cacheCall.evicted) = 1
    /\ Len(pending) = 1
    /\ pending[1].server = "fallback"

----------------------------------------------------------------------------
\* C33: in every state reached by startPathMovement, updatePathMovement and
\* reset, isMoving is true exactly when currentTargetIndex is less than the
\* length of pathNodes.
C33_MovingIffWaypointsLeft ==
    pathCtl.isMoving <=> pathCtl.currentTargetIndex < Len(pathCtl.pathNodes)

\* A path of two waypoints has been completed: the index equals the length
\* and the path is no longer active.
C33_Witness ==
    /\ pathCtl.pathNodes = <<PathA, PathB>>
    /\ pathCtl.currentTargetIndex = 2
    /\ ~pathCtl.isMoving
    /\ pathCall.op = "updatePathMovement"
    /\ pathRet = TRUE
    /\ sprite = [x |-> PathB[1], y |-> PathB[2]]

----------------------------------------------------------------------------
\* The path has been completed: the last call returned true and left the
\* sprite on the last waypoint.
PathCompleted ==
    /\ ~pathCtl.isMoving
    /\ pathCtl.currentTargetIndex = Len(pathCtl.pathNodes)
    /\ pathCall.op = "updatePathMovement"
    /\ pathRet = TRUE
    /\ sprite.x = pathCtl.pathNodes[Len(pathCtl.pathNodes)][1]
    /\ sprite.y = pathCtl.pathNodes[Len(pathCtl.pathNodes)][2]

\* The leg has been completed: the last updateMovement call returned true.
LegCompleted ==
    /\ call.op = "updateMovement"
    /\ ret = TRUE
    /\ ~mover.isMoving
    /\ sprite.x = leg.target[1]
    /\ sprite.y = leg.target[2]

\* C34: when the clock advances and the caller keeps calling, every leg of
\* a started path reports arrival, the path is completed with the sprite on
\* its last waypoint, and a started single leg is completed.
C34_EventuallyArrives ==
    /\ \A k \in 0..1 :
           (pathCtl.isMoving /\ pathCtl.currentTargetIndex = k)
               ~> (pathCtl.currentTargetIndex = k + 1)
    /\ pathCtl.isMoving ~> PathCompleted
    /\ (leg # NoLeg /\ mover.isMoving) ~> LegCompleted

\* A completed path of two waypoints, and the time it took at the least.
C34_Witness ==
    /\ PathCompleted
    /\ pathCtl.pathNodes = <<PathA, PathB>>
    /\ pathCall.at = now
    /\ now >= 136

\* C35: the first updatePathMovement call of a leg and the call in which a
\* leg reports its arrival do not move the sprite toward the next waypoint:
\* the first call starts the leg controller at the time of the call and is
\* throttled, so the sprite stays where it is and the next step is timed from
\* this call; the arrival call sets the sprite onto the waypoint reached.
C35_LegBoundaryCallsStandStill ==
    [][UpdatePathCall =>
          /\ FirstCallOfLeg =>
                 /\ sprite' = sprite
                 /\ pathRet' = FALSE
                 /\ mover'.isMoving
                 /\ mover'.lastUpdateTime = now
          /\ (ActivePath /\ pathCtl'.currentTargetIndex = pathCtl.currentTargetIndex + 1) =>
                 sprite' = Waypoint(pathCtl, pathCtl.currentTargetIndex)
      ]_vars

\* A step that is PROJECT_STOP_ALL.
StopAllCall == blockCall'.op = "PROJECT_STOP_ALL" /\ blockCall'.at = now /\ now' = now

\* C36: move blocks with different targets in scripts of one sprite share the
\* controller registered under the sprite's id.  An invocation that does not
\* yield has set the sprite onto the target of the block invoked and has
\* deleted the controller; an invocation that yields leaves a Moving
\* controller registered.  A controller enters the registry only in an
\* invocation of a move block of its sprite, and leaves it only in an
\* invocation that completes or at PROJECT_STOP_ALL, which empties it.
C36_SharedController ==
    [][\A id \in SpriteIds :
          /\ (BlockCallOf(id) /\ ~yielded') =>
                 /\ stage'[id] = [x |-> blockCall'.x, y |-> blockCall'.y]
                 /\ id \notin DOMAIN preciseMovements'
          /\ (BlockCallOf(id) /\ yielded') =>
                 /\ id \in DOMAIN preciseMovements'
                 /\ preciseMovements'[id].isMoving
          /\ (id \in DOMAIN preciseMovements' /\ id \notin DOMAIN preciseMovements) =>
                 BlockCallOf(id)
          /\ (id \notin DOMAIN preciseMovements' /\ id \in DOMAIN preciseMovements) =>
                 \/ BlockCallOf(id) /\ ~yielded'
                 \/ StopAllCall
          /\ StopAllCall => preciseMovements' = EmptyMap
      ]_vars

\* A block with the target (0, 0) has just stepped the controller that a
\* block with another target started at time 0 and moved the sprite away
\* with: its invocation brought the sprite back onto (0, 0), and it yields.
C36_Witness ==
    /\ blockCall.op \in MoveBlocks
    /\ blockCall.id = 1
    /\ blockCall.at = now
    /\ blockCall.x = 0
    /\ blockCall.y = 0
    /\ yielded
    /\ 1 \in DOMAIN preciseMovements
    /\ preciseMovements[1].startTime = 0
    /\ preciseMovements[1].lastUpdateTime = now
    /\ now = 68
    /\ stage[1] = [x |-> 0, y |-> 0]

----------------------------------------------------------------------------
\* The scores of the search.  The links of the model have positive distances.
Searching == pc = "search" \/ (pc = "done" /\ startId \in DOMAIN gScore)

Finite(score) == score # NaN /\ score < Infinity

\* n has a predecessor whose score and some link to n account for n's score.
Accounted(n) ==
    /\ n \in DOMAIN cameFrom
    /\ cameFrom[n] \in DOMAIN gScore
    /\ \E i \in 1..Len(LinkEntries(cameFrom[n])) :
          LET e == LinkEntries(cameFrom[n])[i]
          IN  /\ e.to = n
              /\ e.distance >= 0
              /\ Finite(gScore[cameFrom[n]])
              /\ gScore[n] >= gScore[cameFrom[n]] + e.distance

ScoresSound ==
    Searching =>
        /\ gScore[startId] = 0
        /\ \A n \in DOMAIN gScore :
              /\ gScore[n] # NaN
              /\ (Finite(gScore[n]) /\ n # startId) => Accounted(n)
              /\ Finite(gScore[n]) => gScore[n] >= MinCost(startId, n, {startId})

ScoresStep ==
    (pc = "search" /\ iters' = iters + 1) =>
        /\ DOMAIN gScore' = DOMAIN gScore
        /\ \A n \in DOMAIN gScore :
              /\ gScore'[n] <= gScore[n]
              /\ (n \in Range(openSet') /\ n \notin Range(openSet)) =>
                     gScore'[n] < gScore[n]

\* C37: while findPath searches, gScore[start] is 0; every other node with a
\* finite gScore has a cameFrom predecessor p and a link p -> n of distance d
\* in the adjacency map with gScore[n] >= gScore[p] + d; no gScore is below
\* the least weight of a path from start; an iteration increases no gScore,
\* and a node it adds to the open set has a gScore it strictly decreased.
C37_ScoresSound == []ScoresSound /\ [][ScoresStep]_vars

\* Node 3 was first reached over the link 1 -> 3 of distance 120 and then
\* improved over node 2 to 100.
C37_Witness ==
    /\ pc = "search"
    /\ startId = 1
    /\ iters = 2
    /\ LinkDist(1, 3) = 120
    /\ 3 \in DOMAIN cameFrom
    /\ cameFrom[3] = 2
    /\ gScore[3] = 100
    /\ 3 \in Range(openSet)

\* Following cameFrom from n leads, within k steps, to a node without a
\* predecessor, and that node is the start node.
RECURSIVE LeadsToStart(_, _)
LeadsToStart(n, k) ==
    IF n \notin DOMAIN cameFrom THEN n = startId
    ELSE IF k = 0 THEN FALSE
    ELSE LeadsToStart(cameFrom[n], k - 1)

NoNodeTwice(path) == \A i, j \in 1..Len(path) : path[i] = path[j] => i = j

\* C38: while findPath searches, the start node has no cameFrom predecessor
\* and every chain of predecessors ends, without a cycle, at the start node;
\* a path that reconstructPath returned begins with the start node and holds
\* no node twice.
C38_NoCycle ==
    Searching =>
        /\ startId \notin DOMAIN cameFrom
        /\ \A n \in DOMAIN cameFrom : LeadsToStart(n, Cardinality(DOMAIN cameFrom))
        /\ (pc = "done" /\ result # <<>>) =>
              /\ result = reconstructPath(cameFrom, goalId)
              /\ result[1] = startId
              /\ NoNodeTwice(result)

\* A returned path over two predecessors, found although the start node is a
\* neighbour of the node expanded second.
C38_Witness ==
    /\ pc = "done"
    /\ result = <<1, 2, 3>>
    /\ DOMAIN cameFrom = {2, 3}
    /\ HasLink(2, 1)
    /\ gScore[1] = 0

----------------------------------------------------------------------------
\* findPathToPathList returns after findPath has returned.
ToPathListReturns ==
    /\ pc = "done"
    /\ query.op = "findPathToPathList"
    /\ query.state = "searching"
    /\ query'.state = "returned"

\* C39: the list Path changes only when findPathToPathList returns from a
\* search that gave a non-empty path, and then it holds the ids of the path
\* in order, as strings; a call that is refused because a network list is
\* missing, a search for an unknown endpoint and a search that finds no path
\* leave the list as the last successful call left it.
C39_PathListKept ==
    [][/\ pathList' # pathList => (ToPathListReturns /\ result # <<>>)
       /\ (ToPathListReturns /\ result # <<>>) => pathList' = Strings(result)
       /\ (ToPathListReturns /\ result = <<>>) => pathList' = pathList
       /\ (QueryCall("findPathToPathList") /\ ListsMissing(display)) =>
              /\ query'.state = "returned"
              /\ pathList' = pathList
      ]_vars

\* The list holds the path 1, 2, 3 of an earlier call after a call for the
\* start node 3, which the node lists read by that call do not hold.
C39_Witness ==
    /\ query.op = "findPathToPathList"
    /\ query.state = "returned"
    /\ query.start = 3
    /\ 3 \notin DOMAIN nodes
    /\ ~ListsMissing(display)
    /\ pathList = <<"1", "2", "3">>

----------------------------------------------------------------------------
\* A step that invokes moveStepWithSpeedTowardCoordinate.
StepBlockCall ==
    /\ blockCall'.op = "moveStepWithSpeedTowardCoordinate"
    /\ blockCall'.at = now
    /\ now' = now

====
